---- MODULE Spec2Model ----
(***************************************************************************)
(* Sponge crawler: the URL frontier (UrlQueue), the traversal loop of      *)
(* SpongeCrawler and the crawl-session record kept by the web server.      *)
(***************************************************************************)
EXTENDS Integers, Sequences, FiniteSets, TLC

(***************************************************************************)
(* Bounds of the model                                                     *)
(***************************************************************************)
MaxDepthBound == 2      \* config.maxDepth ranges over 0..MaxDepthBound
MaxPagesBound == 3      \* config.maxPages ranges over 0..MaxPagesBound
MaxQueueOps == 3        \* enqueue calls of one run of the queue specification
MaxRobotsFetches == 3   \* GETs of robots.txt of one run of the robots specification

(***************************************************************************)
(* Program constants                                                       *)
(***************************************************************************)
StagnationLimit == 10   \* noProgressCount > 10 stops the loop
MinFileSize == 100      \* config.minFileSize
MaxFileSize == 104857600 \* config.maxFileSize
SitemapIndexLimit == 10 \* parseSitemap reads the first 10 sitemaps of an index
EstimatorMaxDepth == 3  \* the estimator's maxDepth when the caller gives none
MaxSamplePages == 50    \* sampleCrawl stops after 50 visited pages
SampleSize == 5         \* sampleCrawl follows the first 5 links of a page
PageNumberLimit == 100  \* detectPagination accepts page numbers 1..100
LastPage == 12          \* highest page number a page of the modelled site links to

(***************************************************************************)
(* URLs.  A URL is the record of the parts the crawler looks at: hostname  *)
(* (a sequence of characters), pathname, extension of the last path        *)
(* segment ("" when none) and the value of the `page` query parameter      *)
(* (0 when absent).  Two URLs are the same string iff the records agree.   *)
(***************************************************************************)
SeedHost == <<"s", ".", "c">>
OtherHost == <<"o", ".", "c">>

MkUrl(h, p, e, n) == [host |-> h, path |-> p, ext |-> e, page |-> n]

Seed == MkUrl(SeedHost, "/", "", 0)
PageA == MkUrl(SeedHost, "/a", "", 0)
PageB == MkUrl(SeedHost, "/b", "", 0)
DocD == MkUrl(SeedHost, "/d", "pdf", 0)
OffSite == MkUrl(OtherHost, "/", "", 0)
PageN(n) == MkUrl(SeedHost, "/", "", n)

EmbedE == MkUrl(OtherHost, "/e", "pdf", 0)
\* a document addressed with a query string: /d.pdf?page=1
DocDv1 == MkUrl(SeedHost, "/d", "pdf", 1)

\* the URLs that occur as anchors of the modelled site's pages
LinkUrls == {Seed, PageA, PageB, DocD, DocDv1, OffSite, PageN(1), PageN(2), PageN(LastPage)}

\* the URLs, depths and priorities given to the queue in the queue specification
QueueUrls == {Seed, PageA, PageB}
QueueDepths == {0, 1, 2}
Priorities == {0, 1, 2}

\* the anchors (in document order) and the embedded resources of an HTML page
Page(links, embeds) == [links |-> links, embeds |-> embeds]

\* the HTML pages a GET can answer with: no anchor, any single anchor, and pages
\* with several anchors: repeated and reordered links, a link back to the seed,
\* documents, off-site links, page links with and without gaps, embedded resources
Pages ==
    {Page(<<>>, <<>>)}
    \cup {Page(<<u>>, <<>>) : u \in LinkUrls}
    \cup {Page(<<PageA, PageB>>, <<>>),
          Page(<<PageB, PageA, PageA>>, <<>>),
          Page(<<Seed, DocD, OffSite>>, <<EmbedE>>),
          Page(<<PageN(1), PageN(2)>>, <<>>),
          Page(<<PageN(1), PageN(LastPage)>>, <<>>),
          Page(<<PageA, PageN(3), PageN(1)>>, <<DocD>>)}

Range(s) == {s[i] : i \in 1..Len(s)}

SetMax(S) == CHOOSE x \in S : \A y \in S : y <= x
SetMin(S) == CHOOSE x \in S : \A y \in S : x <= y

VARIABLES
    queue,          \* UrlQueue.queue: sequence of {url, depth, priority, timestamp}
    seen,           \* UrlQueue.seen
    clock,          \* number of entries pushed so far; the timestamp of the next one
    ret,            \* return value of the last UrlQueue call of the queue specification
    config,         \* SpongeCrawler.config
    visitedUrls,    \* SpongeCrawler.visitedUrls
    foundDocuments, \* SpongeCrawler.foundDocuments: url -> download state
    errors,         \* SpongeCrawler.errors: urls of the error entries, in order
    stats,          \* SpongeCrawler.stats
    pc,             \* where start() is
    cur,            \* url and depth of the loop iteration in progress
    noProgressCount,
    lastPageCount,
    timedOut,       \* Date.now() - startTime > maxCrawlTime
    dlTodo,         \* downloadDocuments: the snapshot entries not yet attempted
    status,         \* activeCrawls[crawlId].status
    robotsCache,    \* RobotsChecker.robotsCache: base URL -> parsed policy
    robotsFetches,  \* number of GETs of a robots.txt sent so far
    rcalls,         \* the calls of loadRobotsTxt of the robots specification
    dl,             \* the calls of DocumentDownloader.download
    files,          \* the output directory: path -> content of the file there
    est,            \* the call of PageEstimator.estimatePages
    fcall,          \* the last call of a FilterManager method of the filter specification
    rate            \* the rate limiter: the clock, lastRequestTime and where processUrl is

queueVars == <<queue, seen, clock, ret>>
crawlVars == <<config, visitedUrls, foundDocuments, errors, stats, pc, cur,
               noProgressCount, lastPageCount, timedOut, dlTodo>>
webVars == <<status>>
robotsVars == <<robotsCache, robotsFetches, rcalls>>
downloadVars == <<dl, files>>
estimatorVars == <<est>>
filterVars == <<fcall>>
rateVars == <<rate>>
sideVars == <<robotsVars, downloadVars, estimatorVars, filterVars, rateVars>>
vars == <<queueVars, crawlVars, webVars, sideVars>>

(***************************************************************************)
(* UrlQueue                                                                *)
(***************************************************************************)
CompareDepthDescending(a, b) ==
    IF a.priority # b.priority THEN b.priority - a.priority ELSE b.depth - a.depth

\* the comparator of queue.sort: higher priority first, then lower depth
Compare(a, b) ==
    IF a.priority # b.priority THEN b.priority - a.priority ELSE a.depth - b.depth

\* Array.prototype.sort is stable: e goes before the first entry that must follow it
RECURSIVE InsertSorted(_, _)
InsertSorted(sorted, e) ==
    IF sorted = <<>> THEN <<e>>
    ELSE IF Compare(Head(sorted), e) > 0 THEN <<e>> \o sorted
    ELSE <<Head(sorted)>> \o InsertSorted(Tail(sorted), e)

RECURSIVE StableSort(_)
StableSort(q) ==
    IF q = <<>> THEN <<>>
    ELSE InsertSorted(StableSort(SubSeq(q, 1, Len(q) - 1)), q[Len(q)])

MkEntry(url, depth, priority, ts) ==
    [url |-> url, depth |-> depth, priority |-> priority, timestamp |-> ts]

EnqueueNoSeenCheck(q, s, clk, url, depth, priority) ==
    [queue |-> StableSort(Append(q, MkEntry(url, depth, priority, clk))),
     seen |-> s \cup {url}, clock |-> clk + 1, inserted |-> TRUE]

\* enqueue(url, depth, priority): the queue, the seen set, the clock and the result
Enqueue(q, s, clk, url, depth, priority) ==
    IF url \in s
    THEN [queue |-> q, seen |-> s, clock |-> clk, inserted |-> FALSE]
    ELSE [queue |-> StableSort(Append(q, MkEntry(url, depth, priority, clk))),
          seen |-> s \cup {url}, clock |-> clk + 1, inserted |-> TRUE]

DequeueForgetsSeen(q, s) ==
    IF q = <<>> THEN [queue |-> q, seen |-> s, entry |-> <<>>]
    ELSE [queue |-> Tail(q), seen |-> s \ {Head(q).url}, entry |-> <<Head(q)>>]

DequeuePeek(q, s) ==
    IF q = <<>> THEN [queue |-> q, seen |-> s, entry |-> <<>>]
    ELSE [queue |-> q, seen |-> s, entry |-> <<Head(q)>>]

\* dequeue(): queue.shift(); entry is <<>> for undefined, else the one entry
Dequeue(q, s) ==
    IF q = <<>> THEN [queue |-> q, seen |-> s, entry |-> <<>>]
    ELSE [queue |-> Tail(q), seen |-> s, entry |-> <<Head(q)>>]

IsEmpty(q) == Len(q) = 0
Size(q) == Len(q)
HasSeen(s, url) == url \in s

QueueUrlsOf(q) == {q[i].url : i \in 1..Len(q)}
Occurrences(q, u) == Cardinality({i \in 1..Len(q) : q[i].url = u})

(***************************************************************************)
(* FilterManager                                                           *)
(***************************************************************************)
\* String.prototype.includes on character sequences
Includes(str, sub) ==
    \E i \in 0..(Len(str) - Len(sub)) : SubSeq(str, i + 1, i + Len(sub)) = sub

\* String.prototype.endsWith
EndsWith(str, suffix) ==
    /\ Len(suffix) <= Len(str)
    /\ SubSeq(str, Len(str) - Len(suffix) + 1, Len(str)) = suffix

\* String.prototype.toLowerCase on the characters of the model
ToLower(str) ==
    [i \in 1..Len(str) |->
        CASE str[i] = "S" -> "s"
          [] str[i] = "O" -> "o"
          [] str[i] = "C" -> "c"
          [] OTHER -> str[i]]

\* new URL() accepts the URL: a URL with an empty host does not parse
IsValidUrl(url) == url.host # <<>>

\* new URL(config.startUrl).hostname.toLowerCase()
StartHost(cfg) == ToLower(cfg.startUrl.host)

IsDomainAllowedAllowListFirst(cfg, hostname) ==
    LET domain == ToLower(hostname)
    IN  IF Len(cfg.allowedDomains) > 0
        THEN \E i \in 1..Len(cfg.allowedDomains) :
                Includes(domain, ToLower(cfg.allowedDomains[i]))
        ELSE IF \E i \in 1..Len(cfg.blockedDomains) :
                   Includes(domain, ToLower(cfg.blockedDomains[i]))
        THEN FALSE
        ELSE IF cfg.stayOnDomain /\ IsValidUrl(cfg.startUrl)
        THEN domain = StartHost(cfg) \/ EndsWith(domain, <<".">> \o StartHost(cfg))
        ELSE TRUE

\* isDomainAllowed; without a start URL that parses the stayOnDomain test accepts
IsDomainAllowed(cfg, hostname) ==
    LET domain == ToLower(hostname)
    IN  IF \E i \in 1..Len(cfg.blockedDomains) :
              Includes(domain, ToLower(cfg.blockedDomains[i]))
        THEN FALSE
        ELSE IF Len(cfg.allowedDomains) > 0
        THEN \E i \in 1..Len(cfg.allowedDomains) :
                Includes(domain, ToLower(cfg.allowedDomains[i]))
        ELSE IF cfg.stayOnDomain /\ IsValidUrl(cfg.startUrl)
        THEN domain = StartHost(cfg) \/ EndsWith(domain, <<".">> \o StartHost(cfg))
        ELSE TRUE

\* the ignore patterns that can match a URL of the model: static-asset extensions
IgnoredExtensions == {"js", "css", "woff", "woff2", "ttf", "eot", "ico"}
MatchesIgnorePatterns(url) == url.ext \in IgnoredExtensions

\* every URL of the model is http(s) and parses
ShouldCrawlUrl(cfg, url) ==
    /\ IsDomainAllowed(cfg, url.host)
    /\ ~MatchesIgnorePatterns(url)

\* the regular expressions of isDocumentUrl that test the URL's extension
DocumentPatternMatch(cfg, url) ==
    \/ "pdf" \in cfg.allowedFileTypes /\ url.ext = "pdf"
    \/ cfg.allowedFileTypes \cap {"doc", "docx"} # {} /\ url.ext \in {"doc", "docx"}
    \/ cfg.allowedFileTypes \cap {"xls", "xlsx"} # {} /\ url.ext \in {"xls", "xlsx"}
    \/ cfg.allowedFileTypes \cap {"ppt", "pptx"} # {} /\ url.ext \in {"ppt", "pptx"}

IsDocumentUrlWhateverAllowed(cfg, url) ==
    url.ext \in {"pdf", "doc", "docx", "xls", "xlsx", "ppt", "pptx"}

IsDocumentUrl(cfg, url) ==
    IF cfg.allowedFileTypes = {} THEN FALSE
    ELSE IF url.ext # "" /\ url.ext \in cfg.allowedFileTypes THEN TRUE
    ELSE DocumentPatternMatch(cfg, url)

ShouldFollowLink(cfg, url) ==
    IF ~ShouldCrawlUrl(cfg, url) THEN FALSE
    ELSE IF IsDocumentUrl(cfg, url) THEN FALSE
    ELSE TRUE

\* the extension that isDocumentType requires for a MIME type ("" for any other type)
MimeExtensions(mime) ==
    CASE mime = "application/pdf" -> {"pdf"}
      [] mime = "image/png" -> {"png"}
      [] mime = "image/jpeg" -> {"jpg", "jpeg"}
      [] OTHER -> {}

\* contentType "" stands for a missing header
IsDocumentType(cfg, url, contentType) ==
    IF cfg.allowedFileTypes = {} THEN FALSE
    ELSE IF contentType = "" THEN IsDocumentUrl(cfg, url)
    ELSE MimeExtensions(contentType) \cap cfg.allowedFileTypes # {}

(***************************************************************************)
(* RobotsChecker                                                           *)
(***************************************************************************)
\* `${urlObj.protocol}//${urlObj.host}`; every URL of the model is https
BaseUrl(url) == <<"https:", url.host>>

\* a parsed robots.txt: the paths its rules disallow for the crawler's user agent
Policy(disallow) == [disallow |-> disallow]

\* robotsParser(robotsUrl, 'User-agent: *\nAllow: /')
AllowAll == Policy({})

\* robots.isAllowed(url, userAgent)
PolicyIsAllowed(policy, url) == url.path \notin policy.disallow

\* what the GET of robots.txt can end with: a 200 whose body parses to a policy, a
\* 200 whose body makes the parser throw, another status below 500, or a network
\* error, timeout or status from 500 up, which make axios throw
RobotsResponses ==
    {[kind |-> "ok", policy |-> Policy({})], [kind |-> "ok", policy |-> Policy({"/a"})],
     [kind |-> "unparsable", policy |-> AllowAll],
     [kind |-> "status", policy |-> AllowAll],
     [kind |-> "error", policy |-> AllowAll]}

EmptyCache == [b \in {} |-> AllowAll]

CachePut(cache, key, policy) ==
    [b \in (DOMAIN cache) \cup {key} |-> IF b = key THEN policy ELSE cache[b]]

LoadRobotsTxtSettleCachesOnSuccessOnly(cache, url, response) ==
    LET policy == IF response.kind = "ok" THEN response.policy ELSE AllowAll
    IN  [cache |-> IF response.kind = "ok" THEN CachePut(cache, BaseUrl(url), policy) ELSE cache,
         policy |-> policy]

\* loadRobotsTxt after the GET: the policy that is cached under the base URL and
\* returned
LoadRobotsTxtSettle(cache, url, response) ==
    LET policy == IF response.kind = "ok" THEN response.policy ELSE AllowAll
    IN  [cache |-> CachePut(cache, BaseUrl(url), policy), policy |-> policy]

\* a call of loadRobotsTxt: where it is, its argument, the policy it returned and
\* the way it got it ("cache", "invalid", or the kind of the response to its GET)
RobotsCall(pc_, url, result, via) == [pc |-> pc_, url |-> url, result |-> result, via |-> via]
IdleRobotsCall == RobotsCall("idle", <<>>, <<>>, "none")

(***************************************************************************)
(* DocumentDownloader and the files of the output directory                *)
(***************************************************************************)
\* a size is <<>> for null (unknown) and <<n>> for the number n
\* getFileInfo: parseInt(content-length) || null, where the header is <<>> when it
\* is missing or not a number, and null when the HEAD request fails
GetFileInfoSize(contentLength) ==
    IF contentLength = <<>> \/ contentLength[1] = 0 THEN <<>> ELSE contentLength

\* isFileSizeAllowed: !size holds for null and for 0
IsFileSizeAllowed(size) ==
    IF size = <<>> \/ size[1] = 0 THEN TRUE
    ELSE size[1] >= MinFileSize /\ size[1] <= MaxFileSize

\* shouldDownload; the document records of the crawler carry no contentType when
\* they come from a page
ShouldDownload(cfg, url) ==
    /\ IsDocumentUrl(cfg, url)
    /\ IsDomainAllowed(cfg, url.host)

\* urlObj.hostname.replace(/[^a-zA-Z0-9]/g, '_')
HostnamePrefix(host) == [i \in 1..Len(host) |-> IF host[i] = "." THEN "_" ELSE host[i]]

\* getFileExtension for a URL whose pathname has an extension
GetFileExtension(url) == IF url.ext # "" THEN url.ext ELSE "unknown"

\* sanitizeFilename: the last segment of the pathname, with .html when it has no
\* extension that getFileExtension knows; the query string is not part of it
SanitizeFilename(url) ==
    [name |-> url.path, ext |-> IF url.ext # "" THEN url.ext ELSE "html"]

\* getOutputPath: the directory below outputDir, the prefix of the file name and
\* the file name.  The pathnames of the model have one segment, so the mirror
\* structure has no directories below the host name.
GetOutputPath(cfg, url) ==
    IF cfg.createMirrorStructure
    THEN [dir |-> url.host, prefix |-> <<>>, file |-> SanitizeFilename(url)]
    ELSE [dir |-> <<GetFileExtension(url)>>, prefix |-> HostnamePrefix(url.host),
          file |-> SanitizeFilename(url)]

\* a piece of a file: the n-th chunk of the body of a URL
Chunk(of, n) == [of |-> of, n |-> n]
\* what an offset holds that was skipped over
Hole == Chunk(<<>>, 0)
\* the content of a file that was in the output directory before
OldContent == <<Chunk(<<>>, 1)>>

\* the body the server sends for a document
Body(url) == <<Chunk(<<url>>, 1), Chunk(<<url>>, 2)>>

NoFiles == [p \in {} |-> <<>>]

PathExists(f, p) == p \in DOMAIN f

FilePut(f, p, content) == [q \in (DOMAIN f) \cup {p} |-> IF q = p THEN content ELSE f[q]]

FileRemoveKeepsFile(f, p) == f

\* fs.remove
FileRemove(f, p) == [q \in (DOMAIN f) \ {p} |-> f[q]]

\* a write of one chunk at the writer's own offset
RECURSIVE PadTo(_, _)
PadTo(content, n) == IF Len(content) >= n THEN content ELSE PadTo(Append(content, Hole), n)

WriteAt(content, offset, chunk) == [PadTo(content, offset) EXCEPT ![offset] = chunk]

\* a call of download: where it is, its url, the path it writes to, the chunks the
\* response still has to deliver, the number of chunks it wrote, the state of its
\* write stream (none, open on the file at path, or open on a file that was
\* removed), and what it returned
DownloadCall(pc_, url, path, body, written, fd, result) ==
    [pc |-> pc_, url |-> url, path |-> path, body |-> body, written |-> written,
     fd |-> fd, result |-> result]

IdleDownload == DownloadCall("idle", <<>>, <<>>, <<>>, 0, "none", <<>>)

\* the values download returns
Skipped == [success |-> FALSE, skipped |-> TRUE, size |-> 0, cleanup |-> "none"]
Failed(cleanup) == [success |-> FALSE, skipped |-> FALSE, size |-> 0, cleanup |-> cleanup]
Succeeded(size) == [success |-> TRUE, skipped |-> FALSE, size |-> size, cleanup |-> "none"]

(***************************************************************************)
(* PageEstimator                                                           *)
(***************************************************************************)
\* what a GET of a sitemap location answers: nothing (the request fails), a
\* sitemap with count url elements, or a sitemap index whose sitemap elements
\* name the children
SitemapFails == [kind |-> "fail", count |-> 0, children |-> <<>>]
Urlset(n) == [kind |-> "urlset", count |-> n, children |-> <<>>]
SitemapIndex(children) == [kind |-> "index", count |-> 0, children |-> children]

\* what the GET of robots.txt answers: nothing, or a text whose Sitemap: lines name
\* the listed sitemaps
RobotsTxtFails == [kind |-> "fail", sitemaps |-> <<>>]
RobotsTxt(sitemaps) == [kind |-> "robots", sitemaps |-> sitemaps]

\* what a GET of a page answers: nothing, or HTML with the listed anchors
PageFails == [ok |-> FALSE, links |-> <<>>]
PageWith(links) == [ok |-> TRUE, links |-> links]

\* parseSitemap: the number of url elements, for an index the sum of parseSitemap
\* over its first sitemaps; a document that cannot be fetched counts 0
FirstSitemaps(children) ==
    SubSeq(children, 1,
           IF Len(children) < SitemapIndexLimit THEN Len(children) ELSE SitemapIndexLimit)

RECURSIVE ParseSitemap(_), SumCounts(_)
SumCounts(docs) ==
    IF docs = <<>> THEN 0 ELSE ParseSitemap(Head(docs)) + SumCounts(Tail(docs))

ParseSitemapCountsDocuments(doc) ==
    IF doc.kind = "fail" THEN 0 ELSE 1

ParseSitemap(doc) ==
    IF doc.kind = "fail" THEN 0
    ELSE IF doc.kind = "index" /\ Len(doc.children) > 0
    THEN SumCounts(FirstSitemaps(doc.children))
    ELSE doc.count

\* the loop over the sitemaps that robots.txt names
RECURSIVE FirstPositive(_)
FirstPositive(docs) ==
    IF docs = <<>> THEN 0
    ELSE IF ParseSitemap(Head(docs)) > 0 THEN ParseSitemap(Head(docs))
    ELSE FirstPositive(Tail(docs))

\* checkSitemap for a start URL that parses: sitemap.xml, sitemap_index.xml, then
\* the sitemaps of robots.txt; the first positive count is returned
CheckSitemap(site) ==
    IF ParseSitemap(site.sitemapXml) > 0 THEN ParseSitemap(site.sitemapXml)
    ELSE IF ParseSitemap(site.sitemapIndexXml) > 0 THEN ParseSitemap(site.sitemapIndexXml)
    ELSE IF site.robotsTxt.kind = "robots" THEN FirstPositive(site.robotsTxt.sitemaps)
    ELSE 0

\* every request of checkSitemap for one of the three locations has failed
SitemapProbeFailed(site) ==
    /\ site.sitemapXml.kind = "fail"
    /\ site.sitemapIndexXml.kind = "fail"
    /\ site.robotsTxt.kind = "fail"

\* the page that the site answers for a URL
FetchPage(pages, url) == IF url \in DOMAIN pages THEN pages[url] ELSE PageFails

\* the elements of a Set in insertion order
RECURSIVE Dedup(_)
Dedup(sq) ==
    IF sq = <<>> THEN <<>>
    ELSE LET front == Dedup(SubSeq(sq, 1, Len(sq) - 1))
         IN  IF sq[Len(sq)] \in Range(front) THEN front ELSE Append(front, sq[Len(sq)])

\* sampleCrawl: the visited and discovered URLs, and whether a fetch has failed
RECURSIVE SampleCrawl(_, _, _, _)
RECURSIVE SampleLinks(_, _, _, _)
SampleCrawl(pages, url, depth, st) ==
    IF depth >= EstimatorMaxDepth \/ url \in st.visited
       \/ Cardinality(st.visited) >= MaxSamplePages
    THEN st
    ELSE LET st1 == [st EXCEPT !.visited = @ \cup {url}]
             page == FetchPage(pages, url)
         IN  IF ~page.ok THEN [st1 EXCEPT !.failed = TRUE]
             ELSE LET links == Dedup(SelectSeq(page.links, LAMBDA l : l.host = url.host))
                      sampleSize == IF Len(links) < SampleSize THEN Len(links) ELSE SampleSize
                  IN  SampleLinks(pages, SubSeq(links, 1, sampleSize), depth,
                                  [st1 EXCEPT !.discovered = @ \cup Range(links)])

SampleLinks(pages, links, depth, st) ==
    IF links = <<>> THEN st
    ELSE SampleLinks(pages, Tail(links), depth, SampleCrawl(pages, Head(links), depth + 1, st))

\* analyzePagination: the highest page number in the hrefs of the start page, 0
\* when there is none or the request fails
AnalyzePagination(page) ==
    IF ~page.ok THEN 0
    ELSE LET numbers == {l.page : l \in Range(page.links)} \cup {0}
         IN  SetMax(numbers)

\* estimateFromDiscovery
EstimateFromDiscovery(discovered) ==
    IF discovered < 10 THEN discovered
    ELSE IF discovered < 50 THEN (discovered * 3) \div 2
    ELSE discovered * 2

\* the value estimatePages returns
Estimation(total, discovered, pagination, sitemap, confidence) ==
    [estimatedTotal |-> total, discoveredUrls |-> discovered,
     paginationDetected |-> pagination, sitemapFound |-> sitemap, confidence |-> confidence]

\* the value of the catch of estimatePages
ErrorEstimation == Estimation(1, 1, FALSE, FALSE, "error")

(***************************************************************************)
(* The components a specification does not drive stay as constructed.      *)
(***************************************************************************)
NoRobotsCalls == <<>>
NoDownloads == <<>>
NoEstimate == <<>>
NoFilterCalls == <<>>

(***************************************************************************)
(* SpongeCrawler: pagination detection and page processing                 *)
(***************************************************************************)
\* the part of the crawler's state that page processing changes
Heap(q, s, clk, docs, st) ==
    [queue |-> q, seen |-> s, clock |-> clk, docs |-> docs, stats |-> st]

HeapEnqueue(h, url, depth) ==
    LET r == Enqueue(h.queue, h.seen, h.clock, url, depth, 0)
    IN  [h EXCEPT !.queue = r.queue, !.seen = r.seen, !.clock = r.clock]

IsPaginationLink(link, currentUrl) ==
    /\ link.host = currentUrl.host
    /\ link.path = currentUrl.path /\ link.ext = currentUrl.ext
    /\ link.page > 0 /\ link.page <= PageNumberLimit

\* the loop that adds the page URLs min..max missing from paginationUrls
RECURSIVE FillPages(_, _, _, _)
FillPages(paginationUrls, currentUrl, i, maxPage) ==
    IF i > maxPage THEN paginationUrls
    ELSE LET pageUrl == [currentUrl EXCEPT !.page = i]
         IN  FillPages(IF pageUrl \in Range(paginationUrls) THEN paginationUrls
                       ELSE Append(paginationUrls, pageUrl),
                       currentUrl, i + 1, maxPage)

DetectPaginationObservedOnly(links, currentUrl) ==
    LET paginationUrls == SelectSeq(links, LAMBDA l : IsPaginationLink(l, currentUrl))
        pageNumbers == {l.page : l \in Range(paginationUrls)}
    IN  IF Cardinality(pageNumbers) >= 2
        THEN [detected |-> TRUE, totalPages |-> SetMax(pageNumbers),
              pageUrls |-> paginationUrls]
        ELSE [detected |-> FALSE, totalPages |-> 0, pageUrls |-> <<>>]

DetectPagination(links, currentUrl) ==
    LET paginationUrls == SelectSeq(links, LAMBDA l : IsPaginationLink(l, currentUrl))
        pageNumbers == {l.page : l \in Range(paginationUrls)}
    IN  IF Cardinality(pageNumbers) >= 2
        THEN LET maxPage == SetMax(pageNumbers)
                 minPage == SetMin(pageNumbers)
             IN  [detected |-> TRUE, totalPages |-> maxPage,
                  pageUrls |-> IF maxPage > minPage + 1
                               THEN FillPages(paginationUrls, currentUrl, minPage, maxPage)
                               ELSE paginationUrls]
        ELSE [detected |-> FALSE, totalPages |-> 0, pageUrls |-> <<>>]

\* searchParams.get('page') is a string of digits
IsPaginationUrl(url) == url.page > 0

\* for (const pageUrl of paginationInfo.pageUrls) enqueue at depth + 1
RECURSIVE EnqueuePageUrls(_, _, _, _)
EnqueuePageUrls(h, pageUrls, depth, visited) ==
    IF pageUrls = <<>> THEN h
    ELSE EnqueuePageUrls(IF Head(pageUrls) \notin visited
                         THEN HeapEnqueue(h, Head(pageUrls), depth + 1)
                         ELSE h,
                         Tail(pageUrls), depth, visited)

\* processHtmlPage, lines 258-273
PaginationStep(cfg, visited, h, url, depth, links) ==
    IF depth = 0 /\ ~h.stats.paginationDetected
    THEN LET info == DetectPagination(links, url)
         IN  IF info.detected
             THEN EnqueuePageUrls(
                      [h EXCEPT !.stats.paginationDetected = TRUE,
                                !.stats.totalPagesDiscovered = info.totalPages],
                      info.pageUrls, depth, visited)
             ELSE h
    ELSE h

RegisterDocumentReplaces(h, url) ==
    [h EXCEPT !.docs = [u \in {url} |-> "found"],
              !.stats.documentsFound = @ + 1]

RegisterDocument(h, url) ==
    [h EXCEPT !.docs = [u \in (DOMAIN h.docs) \cup {url} |->
                          IF u = url THEN "found" ELSE h.docs[u]],
              !.stats.documentsFound = @ + 1]

\* one iteration of the loop over the links, lines 280-301
LinkStep(cfg, visited, h, depth, link) ==
    LET shouldFollow == ShouldFollowLink(cfg, link)
        isVisited == link \in visited
        isDocument == IsDocumentUrl(cfg, link)
    IN  IF shouldFollow /\ ~isVisited
        THEN IF isDocument THEN RegisterDocument(h, link)
             ELSE IF depth < cfg.maxDepth
             THEN IF ~h.stats.paginationDetected \/ ~IsPaginationUrl(link)
                  THEN HeapEnqueue(h, link, depth + 1)
                  ELSE h
             ELSE h
        ELSE h

RECURSIVE LinkLoop(_, _, _, _, _)
LinkLoop(cfg, visited, h, depth, links) ==
    IF links = <<>> THEN h
    ELSE LinkLoop(cfg, visited, LinkStep(cfg, visited, h, depth, Head(links)),
                  depth, Tail(links))

\* the extensions of the a[href$=...] selectors of findEmbeddedDocuments
EmbeddedAnchorExtensions == {"pdf", "doc", "docx", "xls", "xlsx"}

\* findEmbeddedDocuments: embeds are the src/data attributes of the embed-like
\* elements, then the anchors whose href ends with a listed extension
RECURSIVE EmbeddedLoop(_, _, _)
EmbeddedLoop(cfg, h, candidates) ==
    IF candidates = <<>> THEN h
    ELSE LET c == Head(candidates)
         IN  EmbeddedLoop(cfg,
                 IF IsDocumentUrl(cfg, c) /\ c \notin DOMAIN h.docs
                 THEN RegisterDocument(h, c) ELSE h,
                 Tail(candidates))

FindEmbeddedDocuments(cfg, h, links, embeds) ==
    EmbeddedLoop(cfg, h,
        embeds \o SelectSeq(links, LAMBDA l : l.ext \in EmbeddedAnchorExtensions /\ l.page = 0))

ProcessHtmlPage(cfg, visited, h, url, depth, links, embeds) ==
    FindEmbeddedDocuments(cfg,
        LinkLoop(cfg, visited, PaginationStep(cfg, visited, h, url, depth, links),
                 depth, links),
        links, embeds)

\* processDocument
ProcessDocument(h, url) == RegisterDocument(h, url)

(***************************************************************************)
(* SpongeCrawler: the rate limiter of processUrl.  Time is counted in      *)
(* milliseconds; synchronous code takes no time, an await can take any.    *)
(***************************************************************************)
\* the values of config.delay
Delays == {0, 2, 4}

\* Date.now() when the crawler is built; lastRequestTime starts at 0, far below
StartTime == 6
\* the clock of the rate-limiter specification stops here
MaxTime == 16

\* Math.random() * delay + delay * 0.5 with Math.random() in [0, 1)
RandomDelays(delay) ==
    IF delay = 0 THEN {0}
    ELSE {d \in 0..(2 * delay) : 2 * d >= delay /\ 2 * d < 3 * delay}

\* the delay enforceRateLimit compares with the time since the last request
EffectiveDelays(cfg) ==
    IF cfg.randomDelay THEN RandomDelays(cfg.delay) ELSE {cfg.delay}

WaitTimeHalved(delay, timeSinceLastRequest) == (delay - timeSinceLastRequest) \div 2

WaitTime(delay, timeSinceLastRequest) == delay - timeSinceLastRequest

\* pc: where processUrl is; now: Date.now(); wake: when the timer of the wait is
\* due; starts: the times the last two GETs of processUrl were sent
RateLimiter(pc_, now, lastRequestTime, wake, starts) ==
    [pc |-> pc_, now |-> now, lastRequestTime |-> lastRequestTime, wake |-> wake,
     starts |-> starts]

NewRateLimiter == RateLimiter("idle", StartTime, 0, 0, <<>>)

\* the end of enforceRateLimit and the lines of processUrl up to the GET
StartFetch(r) ==
    [r EXCEPT !.pc = "fetch", !.lastRequestTime = r.now,
              !.starts = IF Len(@) < 2 THEN Append(@, r.now) ELSE <<@[2], r.now>>]

(***************************************************************************)
(* The crawl session: POST /api/crawl/start has built the crawler, stored  *)
(* the session with status running and called start(), which is waiting    *)
(* for prepareOutputDirectory.                                             *)
(***************************************************************************)
Configs ==
    [startUrl : {Seed, PageN(2)},
     maxDepth : 0..MaxDepthBound,
     maxPages : 0..MaxPagesBound,
     blockedDomains : {<<>>, <<SeedHost>>},
     allowedDomains : {<<>>},
     stayOnDomain : {TRUE},
     allowedFileTypes : {{}, {"pdf"}},
     respectRobotsTxt : {TRUE},
     exportMetadata : {TRUE},
     dryRun : {FALSE}]

InitStats ==
    [pagesVisited |-> 0, documentsFound |-> 0, documentsDownloaded |-> 0, errors |-> 0,
     queueSize |-> 0, currentUrl |-> <<>>, totalPagesDiscovered |-> 0,
     paginationDetected |-> FALSE, aborted |-> FALSE]

EmptyDocs == [u \in {} |-> "found"]

\* what the queue specification records of its last call
Call(op, url, first, second, entry, sizeBefore, seenBefore) ==
    [op |-> op, url |-> url, first |-> first, second |-> second, entry |-> entry,
     sizeBefore |-> sizeBefore, seenBefore |-> seenBefore]

NoCall == Call("none", <<>>, FALSE, FALSE, <<>>, 0, {})

InitCommon ==
    /\ queue = <<>> /\ seen = {} /\ clock = 0 /\ ret = NoCall
    /\ visitedUrls = {} /\ foundDocuments = EmptyDocs /\ errors = <<>>
    /\ stats = InitStats /\ cur = <<>>
    /\ noProgressCount = 0 /\ lastPageCount = 0 /\ timedOut = FALSE
    /\ dlTodo = <<>>
    /\ robotsCache = EmptyCache /\ robotsFetches = 0
    /\ fcall = NoFilterCalls
    /\ rate = NewRateLimiter

Init ==
    /\ rcalls = NoRobotsCalls /\ dl = NoDownloads /\ files = NoFiles /\ est = NoEstimate
    /\ InitCommon
    /\ config \in Configs
    /\ pc = "prepare"
    /\ status = "running"

RejectKeepsStatus ==
    /\ pc' = "rejected"
    /\ UNCHANGED status

\* start() throws: the catch handler of crawler.start() marks the session failed
Reject ==
    /\ pc' = "rejected"
    /\ status' = "failed"

\* start() returns: the then handler of crawler.start() marks the session completed
Resolve ==
    /\ pc' = "resolved"
    /\ status' = "completed"

\* fs.ensureDir fails: prepareOutputDirectory throws and start() rethrows
PrepareFails ==
    /\ pc = "prepare"
    /\ Reject
    /\ UNCHANGED <<sideVars, queueVars, config, visitedUrls, foundDocuments, errors, stats, cur,
                   noProgressCount, lastPageCount, timedOut, dlTodo>>

\* fs.ensureDir succeeds; start() goes on to loadRobotsTxt, which finds nothing in
\* the cache and sends the GET of robots.txt, or to the seed
PrepareOk ==
    /\ pc = "prepare"
    /\ IF config.respectRobotsTxt
       THEN /\ pc' = "robots"
            /\ robotsFetches' = robotsFetches + 1
            /\ UNCHANGED <<rateVars, queue, seen, clock>>
       ELSE LET r == Enqueue(queue, seen, clock, config.startUrl, 0, 0)
            IN  /\ pc' = "loop"
                /\ queue' = r.queue /\ seen' = r.seen /\ clock' = r.clock
                /\ UNCHANGED robotsFetches
    /\ UNCHANGED <<rateVars, robotsCache, rcalls, downloadVars, estimatorVars, filterVars, ret, config, visitedUrls,
                   foundDocuments, errors, stats, cur,
                   noProgressCount, lastPageCount, timedOut, dlTodo, webVars>>

\* loadRobotsTxt returns (it never throws); the seed is enqueued and crawl() starts
RobotsLoaded ==
    /\ pc = "robots"
    /\ \E response \in RobotsResponses :
          robotsCache' = LoadRobotsTxtSettle(robotsCache, config.startUrl, response).cache
    /\ LET r == Enqueue(queue, seen, clock, config.startUrl, 0, 0)
       IN  queue' = r.queue /\ seen' = r.seen /\ clock' = r.clock
    /\ pc' = "loop"
    /\ UNCHANGED <<rateVars, robotsFetches, rcalls, downloadVars, estimatorVars, filterVars, ret, config, visitedUrls,
                   foundDocuments, errors, stats, cur,
                   noProgressCount, lastPageCount, timedOut, dlTodo, webVars>>

\* robotsChecker.isAllowed is async: the call yields a promise, which is truthy.
\* The call itself finds the base URL of every URL that passed shouldCrawlUrl in the
\* cache, so it sends nothing and changes nothing.
RobotsIsAllowedCall(url) == TRUE

ShouldSkipUrlNoDepth(cfg, visited, url, depth) ==
    \/ url \in visited
    \/ ~ShouldCrawlUrl(cfg, url)
    \/ cfg.respectRobotsTxt /\ ~RobotsIsAllowedCall(url)

ShouldSkipUrl(cfg, visited, url, depth) ==
    \/ url \in visited
    \/ depth > cfg.maxDepth
    \/ ~ShouldCrawlUrl(cfg, url)
    \/ cfg.respectRobotsTxt /\ ~RobotsIsAllowedCall(url)

WhileConditionIgnoresAbort ==
    /\ ~IsEmpty(queue)
    /\ stats.pagesVisited < config.maxPages

WhileConditionNoBudget ==
    /\ ~IsEmpty(queue)
    /\ ~stats.aborted

\* the condition of the while loop of crawl()
WhileCondition ==
    /\ ~IsEmpty(queue)
    /\ stats.pagesVisited < config.maxPages
    /\ ~stats.aborted

\* the statements after the loop, then exportResults up to its first await
AfterLoop ==
    /\ stats' = [stats EXCEPT !.currentUrl = <<>>, !.queueSize = 0]
    /\ cur' = <<>>
    /\ IF ~config.dryRun
       THEN /\ pc' = "download"
            /\ dlTodo' = IF DOMAIN foundDocuments = {} THEN <<>>
                         ELSE CHOOSE sq \in [1..Cardinality(DOMAIN foundDocuments) ->
                                                 DOMAIN foundDocuments] :
                                  Range(sq) = DOMAIN foundDocuments
       ELSE /\ pc' = "metadata"
            /\ dlTodo' = <<>>

\* the while condition is false
LoopExit ==
    /\ pc = "loop"
    /\ ~WhileCondition
    /\ AfterLoop
    /\ UNCHANGED <<sideVars, queueVars, config, visitedUrls, foundDocuments, errors,
                   noProgressCount, lastPageCount, timedOut, webVars>>

\* the 30 minute check breaks out of the loop
LoopTimeout ==
    /\ pc = "loop"
    /\ WhileCondition
    /\ timedOut
    /\ AfterLoop
    /\ UNCHANGED <<sideVars, queueVars, config, visitedUrls, foundDocuments, errors,
                   noProgressCount, lastPageCount, timedOut, webVars>>

NoProgress == stats.pagesVisited = lastPageCount
NextNoProgressCountNeverResets == noProgressCount + 1

NextNoProgressCount == IF NoProgress THEN noProgressCount + 1 ELSE 0

\* the no-progress check breaks out of the loop
LoopStagnation ==
    /\ pc = "loop"
    /\ WhileCondition
    /\ ~timedOut
    /\ NoProgress
    /\ NextNoProgressCount > StagnationLimit
    /\ noProgressCount' = NextNoProgressCount
    /\ AfterLoop
    /\ UNCHANGED <<sideVars, queueVars, config, visitedUrls, foundDocuments, errors,
                   lastPageCount, timedOut, webVars>>

\* the iteration goes on: the counters, queueSize, dequeue, currentUrl
Iterate ==
    /\ pc = "loop"
    /\ WhileCondition
    /\ ~timedOut
    /\ ~(NoProgress /\ NextNoProgressCount > StagnationLimit)
    /\ noProgressCount' = NextNoProgressCount
    /\ lastPageCount' = stats.pagesVisited

\* the dequeued URL is skipped: continue
LoopSkip ==
    /\ Iterate
    /\ LET d == Dequeue(queue, seen)
           e == d.entry[1]
       IN  /\ ShouldSkipUrl(config, visitedUrls, e.url, e.depth)
           /\ queue' = d.queue /\ seen' = d.seen
           /\ stats' = [stats EXCEPT !.queueSize = Size(queue), !.currentUrl = <<e.url>>]
    /\ pc' = "loop"
    /\ UNCHANGED <<sideVars, clock, ret, config, visitedUrls, foundDocuments, errors, cur,
                   timedOut, dlTodo, webVars>>

LoopDispatchWithoutAwait ==
    /\ pc \in {"loop", "fetch"}
    /\ WhileCondition
    /\ LET d == Dequeue(queue, seen)
           e == d.entry[1]
       IN  /\ ~ShouldSkipUrl(config, visitedUrls, e.url, e.depth)
           /\ queue' = d.queue /\ seen' = d.seen
           /\ stats' = [stats EXCEPT !.queueSize = Size(queue), !.currentUrl = <<e.url>>]
           /\ cur' = <<[url |-> e.url, depth |-> e.depth]>>
    /\ pc' = "rate"
    /\ UNCHANGED <<sideVars, clock, ret, config, visitedUrls, foundDocuments, errors,
                   noProgressCount, lastPageCount, timedOut, dlTodo, webVars>>

\* the dequeued URL is handed to processUrl, which waits in enforceRateLimit
LoopDispatch ==
    /\ Iterate
    /\ LET d == Dequeue(queue, seen)
           e == d.entry[1]
       IN  /\ ~ShouldSkipUrl(config, visitedUrls, e.url, e.depth)
           /\ queue' = d.queue /\ seen' = d.seen
           /\ stats' = [stats EXCEPT !.queueSize = Size(queue), !.currentUrl = <<e.url>>]
           /\ cur' = <<[url |-> e.url, depth |-> e.depth]>>
    /\ pc' = "rate"
    /\ UNCHANGED <<sideVars, clock, ret, config, visitedUrls, foundDocuments, errors,
                   timedOut, dlTodo, webVars>>

RateLimitDoneCountsOnSuccess ==
    /\ pc = "rate"
    /\ visitedUrls' = visitedUrls \cup {cur[1].url}
    /\ stats' = stats
    /\ pc' = "fetch"
    /\ UNCHANGED <<sideVars, queueVars, config, foundDocuments, errors, cur,
                   noProgressCount, lastPageCount, timedOut, dlTodo, webVars>>

\* processUrl after enforceRateLimit: the URL is visited and the GET is sent
RateLimitDone ==
    /\ pc = "rate"
    /\ visitedUrls' = visitedUrls \cup {cur[1].url}
    /\ stats' = [stats EXCEPT !.pagesVisited = @ + 1]
    /\ pc' = "fetch"
    /\ UNCHANGED <<sideVars, queueVars, config, foundDocuments, errors, cur,
                   noProgressCount, lastPageCount, timedOut, dlTodo, webVars>>

HandleUrlErrorCountsTwice(url) ==
    /\ stats' = [stats EXCEPT !.errors = @ + 2]
    /\ errors' = Append(errors, url)

HandleUrlErrorUncounts(url) ==
    /\ stats' = [stats EXCEPT !.errors = @ - 1]
    /\ errors' = Append(errors, url)

\* handleUrlError
HandleUrlError(url) ==
    /\ stats' = [stats EXCEPT !.errors = @ + 1]
    /\ errors' = Append(errors, url)

\* the GET fails or answers with a status >= 400
FetchFails ==
    /\ pc = "fetch"
    /\ HandleUrlError(cur[1].url)
    /\ pc' = "loop"
    /\ UNCHANGED <<sideVars, queueVars, config, visitedUrls, foundDocuments, cur,
                   noProgressCount, lastPageCount, timedOut, dlTodo, webVars>>

\* the GET answers with an HTML page
FetchHtml ==
    /\ pc = "fetch"
    /\ \E page \in Pages :
          LET h == ProcessHtmlPage(config, visitedUrls,
                       Heap(queue, seen, clock, foundDocuments, stats),
                       cur[1].url, cur[1].depth, page.links, page.embeds)
          IN  /\ queue' = h.queue /\ seen' = h.seen /\ clock' = h.clock
              /\ foundDocuments' = h.docs
              /\ stats' = h.stats
    /\ pc' = "loop"
    /\ UNCHANGED <<sideVars, ret, config, visitedUrls, errors, cur,
                   noProgressCount, lastPageCount, timedOut, dlTodo, webVars>>

OtherContentTypes == {"application/pdf", "application/zip", ""}

\* the GET answers with something that is not HTML
FetchOther ==
    /\ pc = "fetch"
    /\ \E contentType \in OtherContentTypes :
          LET h == IF IsDocumentType(config, cur[1].url, contentType)
                   THEN ProcessDocument(Heap(queue, seen, clock, foundDocuments, stats),
                                        cur[1].url)
                   ELSE Heap(queue, seen, clock, foundDocuments, stats)
          IN  /\ foundDocuments' = h.docs
              /\ stats' = h.stats
    /\ pc' = "loop"
    /\ UNCHANGED <<sideVars, queueVars, config, visitedUrls, errors, cur,
                   noProgressCount, lastPageCount, timedOut, dlTodo, webVars>>

\* the clock passes the 30 minutes while start() waits for the network or a timer
TimePasses ==
    /\ pc \in {"rate", "fetch"}
    /\ ~timedOut
    /\ timedOut' = TRUE
    /\ UNCHANGED <<sideVars, queueVars, config, visitedUrls, foundDocuments, errors, stats, pc, cur,
                   noProgressCount, lastPageCount, dlTodo, webVars>>

DownloadOutcomes == {"downloaded", "skipped", "failed"}

\* one iteration of downloadDocuments; download() never throws
DownloadDocument ==
    /\ pc = "download"
    /\ dlTodo # <<>>
    /\ \E outcome \in DownloadOutcomes :
          LET url == Head(dlTodo)
          IN  /\ foundDocuments' =
                    IF outcome = "failed" THEN foundDocuments
                    ELSE [foundDocuments EXCEPT ![url] = outcome]
              /\ stats' = IF outcome = "downloaded"
                          THEN [stats EXCEPT !.documentsDownloaded = @ + 1]
                          ELSE stats
    /\ dlTodo' = Tail(dlTodo)
    /\ UNCHANGED <<sideVars, queueVars, config, visitedUrls, errors, pc, cur,
                   noProgressCount, lastPageCount, timedOut, webVars>>

\* downloadDocuments is done; exportResults goes on to exportMetadata
DownloadsDone ==
    /\ pc = "download"
    /\ dlTodo = <<>>
    /\ pc' = "metadata"
    /\ UNCHANGED <<sideVars, queueVars, config, visitedUrls, foundDocuments, errors, stats, cur,
                   noProgressCount, lastPageCount, timedOut, dlTodo, webVars>>

\* exportMetadata succeeds or is disabled: start() returns
ExportOk ==
    /\ pc = "metadata"
    /\ Resolve
    /\ UNCHANGED <<sideVars, queueVars, config, visitedUrls, foundDocuments, errors, stats, cur,
                   noProgressCount, lastPageCount, timedOut, dlTodo>>

\* exportMetadata rethrows a write error: start() throws
ExportFails ==
    /\ pc = "metadata"
    /\ config.exportMetadata
    /\ Reject
    /\ UNCHANGED <<sideVars, queueVars, config, visitedUrls, foundDocuments, errors, stats, cur,
                   noProgressCount, lastPageCount, timedOut, dlTodo>>

\* SpongeCrawler.abort
CrawlerAbort == stats' = [stats EXCEPT !.aborted = TRUE]

\* POST /api/crawl/:id/abort on a session that is not completed or failed
AbortAccepted ==
    /\ status \notin {"completed", "failed"}
    /\ CrawlerAbort
    /\ status' = "aborted"
    /\ UNCHANGED <<sideVars, queueVars, config, visitedUrls, foundDocuments, errors, pc, cur,
                   noProgressCount, lastPageCount, timedOut, dlTodo>>

\* POST /api/crawl/:id/abort on a completed or failed session: 400, nothing changes
AbortRefused ==
    /\ status \in {"completed", "failed"}
    /\ UNCHANGED vars

Next ==
    \/ PrepareFails \/ PrepareOk \/ RobotsLoaded
    \/ LoopExit \/ LoopTimeout \/ LoopStagnation \/ LoopSkip \/ LoopDispatch
    \/ RateLimitDone \/ FetchFails \/ FetchHtml \/ FetchOther \/ TimePasses
    \/ DownloadDocument \/ DownloadsDone \/ ExportOk \/ ExportFails
    \/ AbortAccepted \/ AbortRefused

Spec == Init /\ [][Next]_vars

(***************************************************************************)
(* The crawl session with its concurrency limiter: the configuration also  *)
(* carries config.concurrency, which validateCrawlConfig keeps at 1 or     *)
(* more.                                                                   *)
(***************************************************************************)
ConcurrenciesUnvalidated == {0, 1}

Concurrencies == {1, 2}

ConcurrencyConfigs ==
    {[concurrency |-> n] @@ c :
        c \in {d \in Configs : d.startUrl = Seed /\ d.blockedDomains = <<>>
                               /\ d.allowedFileTypes = {"pdf"}},
        n \in Concurrencies}

\* the functions that the limiter has started and that have not returned: crawl()
\* awaits the limiter's promise before it goes on to the next iteration
InFlight == IF pc \in {"rate", "fetch"} THEN 1 ELSE 0

InitC ==
    /\ rcalls = NoRobotsCalls /\ dl = NoDownloads /\ files = NoFiles /\ est = NoEstimate
    /\ InitCommon
    /\ config \in ConcurrencyConfigs
    /\ pc = "prepare"
    /\ status = "running"

SpecC == InitC /\ [][Next]_vars

(***************************************************************************)
(* The crawl session under fair scheduling: the synchronous part of an     *)
(* iteration runs, the timer of enforceRateLimit fires, and the GET        *)
(* returns or fails.                                                       *)
(***************************************************************************)
LoopTurn == LoopExit \/ LoopTimeout \/ LoopStagnation \/ LoopSkip \/ LoopDispatch

FetchNeedNotSettle == pc = "fetch" /\ FALSE /\ UNCHANGED vars

\* httpClient.get resolves or rejects (the axios timeout rejects a GET that hangs)
FetchSettles == FetchFails \/ FetchHtml \/ FetchOther

TraversalStep == LoopTurn \/ RateLimitDone \/ FetchSettles

SpecL == Init /\ [][Next]_vars /\ WF_vars(TraversalStep)

(***************************************************************************)
(* The queue specification: a UrlQueue driven by arbitrary calls.          *)
(***************************************************************************)
\* the configuration of the specifications that drive one component
ComponentConfig ==
    [startUrl |-> Seed, maxDepth |-> MaxDepthBound, maxPages |-> MaxPagesBound,
     blockedDomains |-> <<>>, allowedDomains |-> <<>>, stayOnDomain |-> TRUE,
     allowedFileTypes |-> {}, respectRobotsTxt |-> TRUE,
     exportMetadata |-> TRUE, dryRun |-> FALSE]

InitQ ==
    /\ InitCommon
    /\ rcalls = NoRobotsCalls /\ dl = NoDownloads /\ files = NoFiles /\ est = NoEstimate
    /\ config = ComponentConfig
    /\ pc = "queue"
    /\ status = "running"

\* one call of enqueue
QEnqueue ==
    /\ clock < MaxQueueOps
    /\ \E url \in QueueUrls, depth \in QueueDepths, priority \in Priorities :
          LET r == Enqueue(queue, seen, clock, url, depth, priority)
          IN  /\ queue' = r.queue /\ seen' = r.seen /\ clock' = r.clock
              /\ ret' = Call("enqueue", <<url>>, r.inserted, FALSE, <<>>, Size(queue), seen)
    /\ UNCHANGED <<sideVars, crawlVars, webVars>>

\* two calls of enqueue for the same URL, one after the other
QEnqueueTwice ==
    /\ clock < MaxQueueOps
    /\ \E url \in QueueUrls, depth \in QueueDepths, priority \in Priorities :
          LET r1 == Enqueue(queue, seen, clock, url, depth, priority)
              r2 == Enqueue(r1.queue, r1.seen, r1.clock, url, depth, priority)
          IN  /\ queue' = r2.queue /\ seen' = r2.seen /\ clock' = r2.clock
              /\ ret' = Call("enqueueTwice", <<url>>, r1.inserted, r2.inserted, <<>>,
                             Size(queue), seen)
    /\ UNCHANGED <<sideVars, crawlVars, webVars>>

\* one call of dequeue
QDequeue ==
    /\ LET d == Dequeue(queue, seen)
       IN  /\ queue' = d.queue /\ seen' = d.seen
           /\ ret' = Call("dequeue", <<>>, FALSE, FALSE, d.entry, Size(queue), seen)
    /\ UNCHANGED <<sideVars, clock, crawlVars, webVars>>

\* clear()
QClear ==
    /\ queue' = <<>> /\ seen' = {}
    /\ ret' = Call("clear", <<>>, FALSE, FALSE, <<>>, Size(queue), seen)
    /\ UNCHANGED <<sideVars, clock, crawlVars, webVars>>

NextQ == QEnqueue \/ QEnqueueTwice \/ QDequeue \/ QClear

SpecQ == InitQ /\ [][NextQ]_vars

(***************************************************************************)
(* The robots specification: a RobotsChecker whose loadRobotsTxt is called *)
(* by two callers, each of which may call again once its call returned.    *)
(***************************************************************************)
RobotsCallers == {1, 2}

\* a URL that new URL() rejects
InvalidUrl == MkUrl(<<>>, "", "", 0)
RobotsCallUrls == {Seed, PageA, OffSite, InvalidUrl}

InitR ==
    /\ InitCommon
    /\ rcalls = [c \in RobotsCallers |-> IdleRobotsCall]
    /\ dl = NoDownloads /\ files = NoFiles /\ est = NoEstimate
    /\ config = ComponentConfig
    /\ pc = "robotsChecker"
    /\ status = "running"

\* loadRobotsTxt up to its await: an invalid URL gives allow-everything, a cached
\* base URL gives the cached policy, anything else sends the GET of robots.txt
RLoadCall(c) ==
    /\ rcalls[c].pc \in {"idle", "done"}
    /\ \E url \in RobotsCallUrls :
          IF ~IsValidUrl(url)
          THEN /\ rcalls' = [rcalls EXCEPT ![c] = RobotsCall("done", <<url>>, <<AllowAll>>, "invalid")]
               /\ UNCHANGED robotsFetches
          ELSE IF BaseUrl(url) \in DOMAIN robotsCache
          THEN /\ rcalls' = [rcalls EXCEPT ![c] =
                              RobotsCall("done", <<url>>, <<robotsCache[BaseUrl(url)]>>, "cache")]
               /\ UNCHANGED robotsFetches
          ELSE /\ robotsFetches < MaxRobotsFetches
               /\ rcalls' = [rcalls EXCEPT ![c] = RobotsCall("get", <<url>>, <<>>, "none")]
               /\ robotsFetches' = robotsFetches + 1
    /\ UNCHANGED <<rateVars, robotsCache, downloadVars, estimatorVars, filterVars, queueVars, crawlVars, webVars>>

\* the GET of robots.txt settles: the policy is cached and returned
RLoadSettle(c) ==
    /\ rcalls[c].pc = "get"
    /\ \E response \in RobotsResponses :
          LET r == LoadRobotsTxtSettle(robotsCache, rcalls[c].url[1], response)
          IN  /\ robotsCache' = r.cache
              /\ rcalls' = [rcalls EXCEPT ![c] =
                              RobotsCall("done", rcalls[c].url, <<r.policy>>, response.kind)]
    /\ UNCHANGED <<rateVars, robotsFetches, downloadVars, estimatorVars, filterVars, queueVars, crawlVars, webVars>>

\* clearCache()
RClearCache ==
    /\ robotsCache' = EmptyCache
    /\ UNCHANGED <<rateVars, robotsFetches, rcalls, downloadVars, estimatorVars, filterVars, queueVars, crawlVars,
                   webVars>>

NextR ==
    \/ \E c \in RobotsCallers : RLoadCall(c)
    \/ \E c \in RobotsCallers : RLoadSettle(c)
    \/ RClearCache

SpecR == InitR /\ [][NextR]_vars

(***************************************************************************)
(* The downloader specification: one call of download, or the two calls    *)
(* that downloadBatch starts together for two distinct URLs.               *)
(***************************************************************************)
Downloaders == {1, 2}

DocF == MkUrl(SeedHost, "/f", "pdf", 0)
DownloadUrls == {DocD, DocDv1, DocF, EmbedE, PageA}

\* the content-length of the HEAD response
HeadSizes == {<<>>, <<0>>, <<50>>, <<1000>>}

DownloaderConfigs ==
    [startUrl : {Seed}, maxDepth : {MaxDepthBound}, maxPages : {MaxPagesBound},
     blockedDomains : {<<>>}, allowedDomains : {<<>>}, stayOnDomain : {TRUE},
     allowedFileTypes : {{"pdf"}}, respectRobotsTxt : {TRUE},
     exportMetadata : {TRUE}, dryRun : {FALSE},
     overwriteExisting : BOOLEAN, createMirrorStructure : BOOLEAN]

\* download(url) has been called
StartedDownload(url) == DownloadCall("start", <<url>>, <<>>, <<>>, 0, "none", <<>>)

InitD ==
    /\ InitCommon
    /\ rcalls = NoRobotsCalls /\ est = NoEstimate
    /\ config \in DownloaderConfigs
    /\ files \in {NoFiles, FilePut(NoFiles, GetOutputPath(config, DocD), OldContent)}
    /\ dl \in {<<StartedDownload(u), IdleDownload>> : u \in DownloadUrls}
             \cup {<<StartedDownload(u[1]), StartedDownload(u[2])>> :
                      u \in {v \in DownloadUrls \X DownloadUrls : v[1] # v[2]}}
    /\ pc = "downloader"
    /\ status = "running"

\* the write streams that are open on the file at path p lose it when it is removed
Unlinked(calls, p) ==
    [j \in DOMAIN calls |->
        IF calls[j].fd = "open" /\ calls[j].path = <<p>>
        THEN [calls[j] EXCEPT !.fd = "unlinked"] ELSE calls[j]]

Returns(call, result) == [call EXCEPT !.pc = "done", !.fd = "none", !.result = <<result>>]

\* download up to getFileInfo: shouldDownload
DStart(i) ==
    /\ dl[i].pc = "start"
    /\ dl' = [dl EXCEPT ![i] = IF ShouldDownload(config, dl[i].url[1])
                               THEN [dl[i] EXCEPT !.pc = "head"]
                               ELSE Returns(dl[i], Skipped)]
    /\ UNCHANGED <<rateVars, files, robotsVars, estimatorVars, filterVars, queueVars, crawlVars, webVars>>

\* getFileInfo returns: the size check and getOutputPath
DHead(i) ==
    /\ dl[i].pc = "head"
    /\ \E size \in HeadSizes :
          dl' = [dl EXCEPT ![i] =
                    IF IsFileSizeAllowed(GetFileInfoSize(size))
                    THEN [dl[i] EXCEPT !.pc = "exists",
                                       !.path = <<GetOutputPath(config, dl[i].url[1])>>]
                    ELSE Returns(dl[i], Skipped)]
    /\ UNCHANGED <<rateVars, files, robotsVars, estimatorVars, filterVars, queueVars, crawlVars, webVars>>

\* fs.pathExists(outputPath) returns
DExists(i) ==
    /\ dl[i].pc = "exists"
    /\ dl' = [dl EXCEPT ![i] =
                 IF PathExists(files, dl[i].path[1]) /\ ~config.overwriteExisting
                 THEN Returns(dl[i], Skipped)
                 ELSE [dl[i] EXCEPT !.pc = "mkdir"]]
    /\ UNCHANGED <<rateVars, files, robotsVars, estimatorVars, filterVars, queueVars, crawlVars, webVars>>

\* fs.ensureDir returns, or throws when the directory is not there and cannot be made
DEnsureDir(i) ==
    /\ dl[i].pc = "mkdir"
    /\ \/ dl' = [dl EXCEPT ![i] = [dl[i] EXCEPT !.pc = "get"]]
       \/ /\ \A p \in DOMAIN files : p.dir # dl[i].path[1].dir
          /\ dl' = [dl EXCEPT ![i] = Returns(dl[i], Failed("nothing"))]
    /\ UNCHANGED <<rateVars, files, robotsVars, estimatorVars, filterVars, queueVars, crawlVars, webVars>>

\* the GET fails: a network error, or a status other than 200
DGetFails(i) ==
    /\ dl[i].pc = "get"
    /\ dl' = [dl EXCEPT ![i] = [dl[i] EXCEPT !.pc = "cleanup"]]
    /\ UNCHANGED <<rateVars, files, robotsVars, estimatorVars, filterVars, queueVars, crawlVars, webVars>>

\* the GET answers 200: createWriteStream creates or truncates the file and the
\* pipeline starts
DGetOk(i) ==
    /\ dl[i].pc = "get"
    /\ \E body \in {Body(dl[i].url[1]), <<>>} :
          dl' = [dl EXCEPT ![i] = [dl[i] EXCEPT !.pc = "stream", !.body = body, !.fd = "open"]]
    /\ files' = FilePut(files, dl[i].path[1], <<>>)
    /\ UNCHANGED <<rateVars, robotsVars, estimatorVars, filterVars, queueVars, crawlVars, webVars>>

\* the pipeline writes the next chunk at the offset of this write stream
DWrite(i) ==
    /\ dl[i].pc = "stream"
    /\ dl[i].body # <<>>
    /\ files' = IF dl[i].fd = "open"
                 THEN FilePut(files, dl[i].path[1],
                              WriteAt(files[dl[i].path[1]], dl[i].written + 1, Head(dl[i].body)))
                 ELSE files
    /\ dl' = [dl EXCEPT ![i] = [dl[i] EXCEPT !.body = Tail(@), !.written = @ + 1]]
    /\ UNCHANGED <<rateVars, robotsVars, estimatorVars, filterVars, queueVars, crawlVars, webVars>>

\* the pipeline fails: the response stream or the write stream reports an error
DStreamError(i) ==
    /\ dl[i].pc = "stream"
    /\ dl' = [dl EXCEPT ![i] = [dl[i] EXCEPT !.pc = "cleanup", !.fd = "none"]]
    /\ UNCHANGED <<rateVars, files, robotsVars, estimatorVars, filterVars, queueVars, crawlVars, webVars>>

\* the pipeline is done
DStreamEnd(i) ==
    /\ dl[i].pc = "stream"
    /\ dl[i].body = <<>>
    /\ dl' = [dl EXCEPT ![i] = [dl[i] EXCEPT !.pc = "stat", !.fd = "none"]]
    /\ UNCHANGED <<rateVars, files, robotsVars, estimatorVars, filterVars, queueVars, crawlVars, webVars>>

\* fs.stat(outputPath): it throws when no file is there; an empty file is removed
\* (the removal may fail) and an error thrown; otherwise downloadFile returns
DStat(i) ==
    /\ dl[i].pc = "stat"
    /\ LET p == dl[i].path[1]
       IN  IF ~PathExists(files, p)
           THEN /\ dl' = [dl EXCEPT ![i] = [dl[i] EXCEPT !.pc = "cleanup"]]
                /\ UNCHANGED files
           ELSE IF Len(files[p]) = 0
           THEN \/ /\ files' = FileRemove(files, p)
                   /\ dl' = [Unlinked(dl, p) EXCEPT ![i] = [dl[i] EXCEPT !.pc = "cleanup"]]
                \/ /\ UNCHANGED files
                   /\ dl' = [dl EXCEPT ![i] = [dl[i] EXCEPT !.pc = "cleanup"]]
           ELSE /\ dl' = [dl EXCEPT ![i] = Returns(dl[i], Succeeded(Len(files[p])))]
                /\ UNCHANGED files
    /\ UNCHANGED <<rateVars, robotsVars, estimatorVars, filterVars, queueVars, crawlVars, webVars>>

\* the catch of downloadFile: a file at outputPath is removed, unless the removal
\* fails; the error goes on to the catch of download, which returns success false
DCleanup(i) ==
    /\ dl[i].pc = "cleanup"
    /\ LET p == dl[i].path[1]
       IN  IF PathExists(files, p)
           THEN \/ /\ files' = FileRemove(files, p)
                   /\ dl' = [Unlinked(dl, p) EXCEPT ![i] = Returns(dl[i], Failed("removed"))]
                \/ /\ UNCHANGED files
                   /\ dl' = [dl EXCEPT ![i] = Returns(dl[i], Failed("failed"))]
           ELSE /\ dl' = [dl EXCEPT ![i] = Returns(dl[i], Failed("nothing"))]
                /\ UNCHANGED files
    /\ UNCHANGED <<rateVars, robotsVars, estimatorVars, filterVars, queueVars, crawlVars, webVars>>

NextD ==
    \/ \E i \in Downloaders : DStart(i)
    \/ \E i \in Downloaders : DHead(i)
    \/ \E i \in Downloaders : DExists(i)
    \/ \E i \in Downloaders : DEnsureDir(i)
    \/ \E i \in Downloaders : DGetFails(i)
    \/ \E i \in Downloaders : DGetOk(i)
    \/ \E i \in Downloaders : DWrite(i)
    \/ \E i \in Downloaders : DStreamError(i)
    \/ \E i \in Downloaders : DStreamEnd(i)
    \/ \E i \in Downloaders : DStat(i)
    \/ \E i \in Downloaders : DCleanup(i)

SpecD == InitD /\ [][NextD]_vars

(***************************************************************************)
(* The estimator specification: one call of estimatePages on a site.       *)
(***************************************************************************)
\* the sites: what each sitemap location, robots.txt, the pages and the second
\* request for the start page answer
SitemapXmlAnswers ==
    {SitemapFails, Urlset(0), Urlset(2), SitemapIndex(<<Urlset(1), SitemapFails, Urlset(2)>>)}
LongIndex == SitemapIndex([i \in 1..(SitemapIndexLimit + 1) |-> Urlset(1)])
SitemapIndexXmlAnswers == {SitemapFails, Urlset(1), SitemapIndex(<<SitemapFails>>), LongIndex}
RobotsTxtAnswers == {RobotsTxtFails, RobotsTxt(<<>>), RobotsTxt(<<SitemapFails, Urlset(2)>>)}

SamplePages == {Seed, PageA, PageB}
SiteGraphs ==
    {[u \in SamplePages |-> PageFails],
     [u \in SamplePages |-> IF u = Seed THEN PageWith(<<>>) ELSE PageFails],
     [u \in SamplePages |->
         IF u = Seed THEN PageWith(<<PageA, PageB, OffSite, PageA>>)
         ELSE IF u = PageA THEN PageWith(<<PageB, PageN(1)>>)
         ELSE PageFails],
     [u \in SamplePages |->
         IF u = Seed THEN PageWith(<<PageN(1), PageN(2)>>) ELSE PageWith(<<Seed>>)]}

PaginationAnswers == {PageFails, PageWith(<<PageA>>), PageWith(<<PageN(1), PageN(2)>>)}

Sites ==
    [sitemapXml : SitemapXmlAnswers, sitemapIndexXml : SitemapIndexXmlAnswers,
     robotsTxt : RobotsTxtAnswers, pages : SiteGraphs, paginationPage : PaginationAnswers]

\* a call of estimatePages: where it is, its argument, the site, the stages it has
\* run, the stages in which a request failed, the discovered URLs, and the result
EstimateCall(pc_, startUrl, site, stages, failed, discovered, result) ==
    [pc |-> pc_, startUrl |-> startUrl, site |-> site, stages |-> stages,
     failed |-> failed, discovered |-> discovered, result |-> result]

InitE ==
    /\ InitCommon
    /\ rcalls = NoRobotsCalls /\ dl = NoDownloads /\ files = NoFiles
    /\ config = ComponentConfig
    /\ est \in {EstimateCall("sitemap", u, site, {}, {}, {}, <<>>) :
                  u \in {Seed, InvalidUrl}, site \in Sites}
    /\ pc = "estimator"
    /\ status = "running"

\* step 1: checkSitemap; new URL(startUrl) throws for an invalid URL, which the
\* catch of estimatePages turns into the error result
EstimateSitemap ==
    /\ est.pc = "sitemap"
    /\ est' =
          IF ~IsValidUrl(est.startUrl)
          THEN [est EXCEPT !.pc = "done", !.stages = {"sitemap"}, !.result = <<ErrorEstimation>>]
          ELSE LET sitemapPages == CheckSitemap(est.site)
                   failed == IF SitemapProbeFailed(est.site) THEN {"sitemap"} ELSE {}
               IN  IF sitemapPages > 0
                   THEN [est EXCEPT !.pc = "done", !.stages = {"sitemap"}, !.failed = failed,
                                    !.result = <<Estimation(sitemapPages, 0, FALSE, TRUE, "high")>>]
                   ELSE [est EXCEPT !.pc = "sample", !.stages = {"sitemap"}, !.failed = failed]
    /\ UNCHANGED <<rateVars, robotsVars, downloadVars, filterVars, queueVars, crawlVars, webVars>>

\* step 2: sampleCrawl(startUrl, 0)
EstimateSample ==
    /\ est.pc = "sample"
    /\ LET st == SampleCrawl(est.site.pages, est.startUrl, 0,
                             [visited |-> {}, discovered |-> {}, failed |-> FALSE])
       IN  est' = [est EXCEPT !.pc = "pagination",
                              !.stages = @ \cup {"sample"},
                              !.failed = IF st.failed THEN @ \cup {"sample"} ELSE @,
                              !.discovered = st.discovered]
    /\ UNCHANGED <<rateVars, robotsVars, downloadVars, filterVars, queueVars, crawlVars, webVars>>

\* steps 3 and 4: analyzePagination, or the estimate from the discovered URLs
EstimatePagination ==
    /\ est.pc = "pagination"
    /\ LET discovered == Cardinality(est.discovered)
           paginationEstimate == AnalyzePagination(est.site.paginationPage)
           fromDiscovery == EstimateFromDiscovery(discovered)
           result ==
               IF paginationEstimate > 0
               THEN Estimation(IF discovered > paginationEstimate THEN discovered
                               ELSE paginationEstimate,
                               discovered, TRUE, FALSE, "medium")
               ELSE Estimation(fromDiscovery, discovered, FALSE, FALSE,
                               IF fromDiscovery > discovered THEN "low" ELSE "medium")
       IN  est' = [est EXCEPT !.pc = "done",
                              !.stages = @ \cup {"pagination"},
                              !.failed = IF est.site.paginationPage.ok THEN @
                                         ELSE @ \cup {"pagination"},
                              !.result = <<result>>]
    /\ UNCHANGED <<rateVars, robotsVars, downloadVars, filterVars, queueVars, crawlVars, webVars>>

NextE == EstimateSitemap \/ EstimateSample \/ EstimatePagination

SpecE == InitE /\ [][NextE]_vars

(***************************************************************************)
(* The filter specification: a FilterManager built from a validated crawl  *)
(* configuration, whose isDomainAllowed and isFileSizeAllowed are called.  *)
(***************************************************************************)
SubHost == <<"w", ".", "s", ".", "c">>
LookalikeHost == <<"x", "s", ".", "c">>
FilterHosts == {SeedHost, OtherHost, SubHost, LookalikeHost}

FilterConfigs ==
    [startUrl : {Seed, OffSite}, maxDepth : {MaxDepthBound}, maxPages : {MaxPagesBound},
     blockedDomains : {<<>>, <<OtherHost>>, << <<"S", ".", "C">> >>, << <<"w">>, OtherHost >>},
     allowedDomains : {<<>>, <<SeedHost>>, << <<"O", ".", "c">> >>, << OtherHost, <<"w", ".">> >>},
     stayOnDomain : BOOLEAN,
     allowedFileTypes : {{}}, respectRobotsTxt : {TRUE},
     exportMetadata : {TRUE}, dryRun : {FALSE}]

\* the sizes given to isFileSizeAllowed: null and numbers around the two limits
FilterSizes ==
    {<<>>, <<0>>, <<1>>, <<MinFileSize - 1>>, <<MinFileSize>>, <<MinFileSize + 1>>,
     <<MaxFileSize>>, <<MaxFileSize + 1>>}

\* what the filter specification records of a call
FilterCall(op, arg, result) == [op |-> op, arg |-> arg, result |-> result]

InitF ==
    /\ InitCommon
    /\ rcalls = NoRobotsCalls /\ dl = NoDownloads /\ files = NoFiles /\ est = NoEstimate
    /\ config \in FilterConfigs
    /\ pc = "filterManager"
    /\ status = "running"

\* one call of isDomainAllowed
FIsDomainAllowed ==
    /\ pc = "filterManager"
    /\ \E hostname \in FilterHosts :
          fcall' = <<FilterCall("isDomainAllowed", hostname,
                                IsDomainAllowed(config, hostname))>>
    /\ UNCHANGED <<rateVars, robotsVars, downloadVars, estimatorVars, queueVars, crawlVars, webVars>>

\* one call of isFileSizeAllowed
FIsFileSizeAllowed ==
    /\ pc = "filterManager"
    /\ \E size \in FilterSizes :
          fcall' = <<FilterCall("isFileSizeAllowed", size, IsFileSizeAllowed(size))>>
    /\ UNCHANGED <<rateVars, robotsVars, downloadVars, estimatorVars, queueVars, crawlVars, webVars>>

NextF == FIsDomainAllowed \/ FIsFileSizeAllowed

SpecF == InitF /\ [][NextF]_vars

(***************************************************************************)
(* The sitemap specification: parseSitemap step by step, for sitemaps that *)
(* name their children by location, so that an index can list itself.      *)
(***************************************************************************)
MaxSitemapDepth == 5

SitemapRoot == "/sitemap.xml"
SitemapLocs == {SitemapRoot, "/a.xml", "/b.xml"}

\* what the site answers for each location: an index that lists itself, a cycle
\* of two indexes, an index of two sitemaps, an index of a sitemap and itself, an
\* index whose sitemaps share a sitemap, a cycle of three indexes
SitemapGraphs ==
    {[l \in SitemapLocs |-> IF l = SitemapRoot THEN SitemapIndex(<<SitemapRoot>>)
                            ELSE Urlset(1)],
     [l \in SitemapLocs |-> IF l = SitemapRoot THEN SitemapIndex(<<"/a.xml">>)
                            ELSE IF l = "/a.xml" THEN SitemapIndex(<<SitemapRoot>>)
                            ELSE Urlset(1)],
     [l \in SitemapLocs |-> IF l = SitemapRoot THEN SitemapIndex(<<"/a.xml", "/b.xml">>)
                            ELSE IF l = "/a.xml" THEN Urlset(2)
                            ELSE Urlset(1)],
     [l \in SitemapLocs |-> IF l = SitemapRoot THEN SitemapIndex(<<"/a.xml", SitemapRoot>>)
                            ELSE Urlset(1)],
     [l \in SitemapLocs |-> IF l = SitemapRoot THEN SitemapIndex(<<"/a.xml", "/b.xml">>)
                            ELSE IF l = "/a.xml" THEN SitemapIndex(<<"/b.xml">>)
                            ELSE Urlset(1)],
     [l \in SitemapLocs |-> IF l = SitemapRoot THEN SitemapIndex(<<"/a.xml">>)
                            ELSE IF l = "/a.xml" THEN SitemapIndex(<<"/b.xml">>)
                            ELSE SitemapIndex(<<SitemapRoot>>)]}

\* a call of parseSitemap that has not returned: its argument, whether it waits
\* for the GET or is in the loop over the sitemaps of an index, the sitemaps
\* still to parse and totalUrls
SitemapFrame(loc, at, children, totalUrls) ==
    [loc |-> loc, at |-> at, children |-> children, totalUrls |-> totalUrls]

\* the calls of parseSitemap (the innermost last), the count the outermost call
\* returned, and whether a GET has failed
SitemapCall(graph, stack, result, failed) ==
    [graph |-> graph, stack |-> stack, result |-> result, failed |-> failed]

ParseSitemapCallUnlessParsing(stack, loc) ==
    IF \E i \in 1..Len(stack) : stack[i].loc = loc THEN stack
    ELSE Append(stack, SitemapFrame(loc, "get", <<>>, 0))

\* parseSitemap is called for a sitemap of an index, whatever calls are under way
ParseSitemapCall(stack, loc) == Append(stack, SitemapFrame(loc, "get", <<>>, 0))

\* the innermost call returns count: the caller adds it to totalUrls
SitemapReturn(e, count) ==
    LET n == Len(e.stack)
    IN  IF n = 1 THEN [e EXCEPT !.stack = <<>>, !.result = <<count>>]
        ELSE [e EXCEPT !.stack = [SubSeq(e.stack, 1, n - 1) EXCEPT
                                      ![n - 1].totalUrls = @ + count]]

InitS ==
    /\ InitCommon
    /\ rcalls = NoRobotsCalls /\ dl = NoDownloads /\ files = NoFiles
    /\ config = ComponentConfig
    /\ est \in {SitemapCall(g, <<SitemapFrame(SitemapRoot, "get", <<>>, 0)>>, <<>>, FALSE) :
                  g \in SitemapGraphs}
    /\ pc = "sitemapParser"
    /\ status = "running"

\* the GET of the sitemap is rejected: the catch returns 0
SitemapGetFails ==
    /\ pc = "sitemapParser" /\ est.stack # <<>>
    /\ est.stack[Len(est.stack)].at = "get"
    /\ est' = SitemapReturn([est EXCEPT !.failed = TRUE], 0)
    /\ UNCHANGED <<rateVars, robotsVars, downloadVars, filterVars, queueVars, crawlVars, webVars>>

\* the GET answers: an index starts the loop over its first sitemaps, a sitemap
\* returns the number of its url elements
SitemapGetOk ==
    /\ pc = "sitemapParser" /\ est.stack # <<>>
    /\ LET n == Len(est.stack)
           doc == est.graph[est.stack[n].loc]
       IN  /\ est.stack[n].at = "get"
           /\ est' = IF doc.kind = "index" /\ Len(doc.children) > 0
                     THEN [est EXCEPT !.stack[n].at = "loop",
                                      !.stack[n].children = FirstSitemaps(doc.children)]
                     ELSE SitemapReturn(est, doc.count)
    /\ UNCHANGED <<rateVars, robotsVars, downloadVars, filterVars, queueVars, crawlVars, webVars>>

\* the loop calls parseSitemap for the next sitemap of the index
SitemapRecurse ==
    /\ pc = "sitemapParser" /\ est.stack # <<>>
    /\ Len(est.stack) < MaxSitemapDepth
    /\ LET n == Len(est.stack)
       IN  /\ est.stack[n].at = "loop" /\ est.stack[n].children # <<>>
           /\ est' = [est EXCEPT !.stack =
                         ParseSitemapCall([est.stack EXCEPT ![n].children = Tail(@)],
                                          Head(est.stack[n].children))]
    /\ UNCHANGED <<rateVars, robotsVars, downloadVars, filterVars, queueVars, crawlVars, webVars>>

\* the loop is over: the call returns totalUrls
SitemapLoopEnd ==
    /\ pc = "sitemapParser" /\ est.stack # <<>>
    /\ LET n == Len(est.stack)
       IN  /\ est.stack[n].at = "loop" /\ est.stack[n].children = <<>>
           /\ est' = SitemapReturn(est, est.stack[n].totalUrls)
    /\ UNCHANGED <<rateVars, robotsVars, downloadVars, filterVars, queueVars, crawlVars, webVars>>

NextS == SitemapGetFails \/ SitemapGetOk \/ SitemapRecurse \/ SitemapLoopEnd

SpecS == InitS /\ [][NextS]_vars

(***************************************************************************)
(* The rate-limiter specification: the loop of crawl() calls processUrl    *)
(* again and again while the clock advances.                               *)
(***************************************************************************)
RateConfigs ==
    {[delay |-> d, randomDelay |-> b] @@ c :
        d \in Delays, b \in BOOLEAN,
        c \in {k \in Configs : /\ k.startUrl = Seed /\ k.blockedDomains = <<>>
                               /\ k.allowedFileTypes = {"pdf"}
                               /\ k.maxDepth = MaxDepthBound
                               /\ k.maxPages = MaxPagesBound}}

InitT ==
    /\ InitCommon
    /\ rcalls = NoRobotsCalls /\ dl = NoDownloads /\ files = NoFiles /\ est = NoEstimate
    /\ config \in RateConfigs
    /\ pc = "rateLimiter"
    /\ status = "running"

\* processUrl is called: enforceRateLimit up to its await
RateLimitEnter ==
    /\ pc = "rateLimiter" /\ rate.pc = "idle"
    /\ \E delay \in EffectiveDelays(config) :
          LET timeSinceLastRequest == rate.now - rate.lastRequestTime
          IN  rate' = IF timeSinceLastRequest < delay
                      THEN [rate EXCEPT !.pc = "wait",
                                        !.wake = rate.now + WaitTime(delay, timeSinceLastRequest)]
                      ELSE StartFetch(rate)
    /\ UNCHANGED <<robotsVars, downloadVars, estimatorVars, filterVars, queueVars, crawlVars, webVars>>

\* the timer of the wait fires, not before it is due
RateLimitTimer ==
    /\ rate.pc = "wait" /\ rate.now >= rate.wake
    /\ rate' = StartFetch(rate)
    /\ UNCHANGED <<robotsVars, downloadVars, estimatorVars, filterVars, queueVars, crawlVars, webVars>>

\* the GET settles and processUrl returns to the loop
RateFetchSettles ==
    /\ rate.pc = "fetch"
    /\ rate' = [rate EXCEPT !.pc = "idle"]
    /\ UNCHANGED <<robotsVars, downloadVars, estimatorVars, filterVars, queueVars, crawlVars, webVars>>

\* a millisecond passes
ClockTick ==
    /\ pc = "rateLimiter" /\ rate.now < MaxTime
    /\ rate' = [rate EXCEPT !.now = @ + 1]
    /\ UNCHANGED <<robotsVars, downloadVars, estimatorVars, filterVars, queueVars, crawlVars, webVars>>

NextT == RateLimitEnter \/ RateLimitTimer \/ RateFetchSettles \/ ClockTick

SpecT == InitT /\ [][NextT]_vars

(***************************************************************************)
(* Properties of the frontier                                              *)
(***************************************************************************)
\* C4: after any sequence of enqueue and dequeue calls, no URL is in the frontier
\* queue more than once
NoDuplicateInFrontier == \A u \in QueueUrls : Occurrences(queue, u) <= 1

\* C4 witness: a URL was enqueued, dequeued and offered again while another is queued
NoDuplicateWitness ==
    /\ ret.op = "enqueue" /\ ~ret.first
    /\ ret.url[1] \notin QueueUrlsOf(queue)
    /\ Len(queue) >= 1

\* C5: for a URL not yet seen, enqueue called twice returns true then false, size()
\* grows by exactly 1 over the two calls, and the second call leaves the queue and
\* the seen set as the first call left them
EnqueueTwiceOnce ==
    (ret.op = "enqueueTwice" /\ ~HasSeen(ret.seenBefore, ret.url[1])) =>
        /\ ret.first /\ ~ret.second
        /\ Size(queue) = ret.sizeBefore + 1
        /\ Occurrences(queue, ret.url[1]) = 1
        /\ seen = ret.seenBefore \cup {ret.url[1]}

\* C5 witness: the two calls were made for an unseen URL on a queue that held entries
EnqueueTwiceWitness ==
    /\ ret.op = "enqueueTwice" /\ ~HasSeen(ret.seenBefore, ret.url[1])
    /\ ret.sizeBefore >= 1
    /\ Size(queue) = ret.sizeBefore + 1

\* e comes before f in the order the frontier promises
Precedes(e, f) ==
    \/ e.priority > f.priority
    \/ e.priority = f.priority /\ e.depth < f.depth
    \/ e.priority = f.priority /\ e.depth = f.depth /\ e.timestamp < f.timestamp

\* C8: dequeue returns the entry with the highest priority, among those the one with
\* the lowest depth, and among those the one enqueued first; on an empty queue it
\* returns nothing
DequeueOrder ==
    ret.op = "dequeue" =>
        IF ret.sizeBefore = 0 THEN ret.entry = <<>>
        ELSE /\ Len(ret.entry) = 1
             /\ Size(queue) = ret.sizeBefore - 1
             /\ \A i \in 1..Len(queue) : Precedes(ret.entry[1], queue[i])

\* C8 witness: dequeue chose among a lower-priority entry, a deeper entry and an
\* entry with the same priority and depth that was enqueued later
DequeueOrderWitness ==
    /\ ret.op = "dequeue" /\ Len(ret.entry) = 1
    /\ \E i \in 1..Len(queue) : queue[i].priority < ret.entry[1].priority
    /\ \E i \in 1..Len(queue) :
          /\ queue[i].priority = ret.entry[1].priority
          /\ queue[i].depth = ret.entry[1].depth
          /\ queue[i].timestamp > ret.entry[1].timestamp

(***************************************************************************)
(* Properties of the crawl session                                         *)
(***************************************************************************)
TerminalStatuses == {"completed", "failed", "aborted"}

\* the traversal loop has run and exited (start() also ends rejected, with nothing
\* enqueued, when the output directory cannot be made)
LoopExited ==
    \/ pc \in {"download", "metadata", "resolved"}
    \/ pc = "rejected" /\ seen # {}

\* C1: once the status is completed, failed or aborted, no later event changes it
TerminalStatusImmutable == [][(status \in TerminalStatuses) => (status' = status)]_vars

\* C2: an abort request on a running session sets the abort flag and the status
\* aborted; with the flag set the loop does not start another iteration but exits at
\* its next condition check; and start() throws only out of prepareOutputDirectory
\* or exportMetadata, never because of the abort
AbortStopsLoop ==
    /\ [][(~stats.aborted /\ stats'.aborted) =>
              (status \notin {"completed", "failed"} /\ status' = "aborted")]_vars
    /\ [][(stats.aborted /\ pc = "loop" /\ pc' # pc) =>
              (LoopExited' /\ queue' = queue /\ visitedUrls' = visitedUrls)]_vars
    /\ [][(stats.aborted /\ pc = "loop") => queue' = queue]_vars
    /\ [][pc' = "rejected" => pc \in {"prepare", "metadata", "rejected"}]_vars

\* C2 witness: the loop has exited on the abort flag alone (entries are left, the
\* page budget is not used up, no timeout, no stagnation) and start() has returned
AbortStopsLoopWitness ==
    /\ stats.aborted /\ pc = "resolved"
    /\ ~IsEmpty(queue) /\ stats.pagesVisited < config.maxPages /\ stats.pagesVisited >= 1
    /\ ~timedOut /\ noProgressCount <= StagnationLimit

\* C3: pagesVisited never exceeds maxPages
PageBudgetRespected == stats.pagesVisited <= config.maxPages

\* C3 witness: the loop has exited with the budget used up and entries left to crawl
PageBudgetWitness ==
    /\ LoopExited
    /\ config.maxPages >= 2 /\ stats.pagesVisited = config.maxPages
    /\ \E i \in 1..Len(queue) :
          ~ShouldSkipUrl(config, visitedUrls, queue[i].url, queue[i].depth)

\* C6: during a session the seen set only grows; every URL that is queued, in
\* flight or visited is in it; and no entry is inserted for a URL that is in it
SeenSetMonotonic ==
    /\ [](QueueUrlsOf(queue) \cup visitedUrls \cup {c.url : c \in Range(cur)} \subseteq seen)
    /\ [][seen \subseteq seen']_vars
    /\ [][\A u \in seen : Occurrences(queue', u) <= Occurrences(queue, u)]_vars

\* C6 witness: a URL found as a link has been dequeued and is being fetched, while a
\* page that links back to the seed has been processed
SeenSetWitness ==
    /\ pc = "fetch" /\ cur[1].depth >= 1
    /\ HasSeen(seen, cur[1].url) /\ cur[1].url \notin QueueUrlsOf(queue)
    /\ HasSeen(seen, config.startUrl) /\ config.startUrl \notin QueueUrlsOf(queue)

\* C7: a visited URL is not in the frontier and is never inserted into it again
VisitedNeverRequeued ==
    /\ [](visitedUrls \cap QueueUrlsOf(queue) = {})
    /\ [][\A u \in visitedUrls : u \notin QueueUrlsOf(queue')]_vars

\* C7 witness: pagination detection on the start URL ?page=2 has generated the pages
\* 1..3, the visited start URL among them, and only pages 1 and 3 were enqueued
VisitedNeverRequeuedWitness ==
    /\ config.startUrl = PageN(2) /\ PageN(2) \in visitedUrls
    /\ stats.paginationDetected /\ stats.totalPagesDiscovered = 3
    /\ {PageN(1), PageN(3)} \subseteq QueueUrlsOf(queue)
    /\ PageN(2) \notin QueueUrlsOf(queue)

SeedPassesFilters == ShouldCrawlUrl(config, config.startUrl)

\* C9 as stated: with maxDepth = 0 and a seed that passes the filters, pagesVisited
\* is 1 when the loop exits
DepthZeroVisitsOne ==
    (LoopExited /\ config.maxDepth = 0 /\ SeedPassesFilters) => stats.pagesVisited = 1

\* C9 as amended: with maxDepth = 0 and a seed that passes the filters, pagesVisited
\* at loop exit is 1 if the seed was dispatched and 0 if it is still queued, which
\* happens only when maxPages = 0 or the abort flag was set before the first dispatch
DepthZeroVisitsSeedOnly ==
    (LoopExited /\ config.maxDepth = 0 /\ SeedPassesFilters) =>
        IF config.startUrl \in QueueUrlsOf(queue)
        THEN stats.pagesVisited = 0 /\ (config.maxPages = 0 \/ stats.aborted)
        ELSE stats.pagesVisited = 1 /\ visitedUrls = {config.startUrl}

\* C9 witness: the seed page had page links, which were enqueued and then skipped
\* until the loop stopped, and the seed is the only page visited
DepthZeroWitness ==
    /\ LoopExited /\ config.maxDepth = 0 /\ SeedPassesFilters
    /\ stats.paginationDetected /\ config.maxPages >= 2
    /\ stats.pagesVisited = 1 /\ ~stats.aborted /\ ~timedOut

\* C10: no entry with depth greater than maxDepth is in the frontier
NoEntryBeyondMaxDepth == \A i \in 1..Len(queue) : queue[i].depth <= config.maxDepth

\* the cached policy of the URL's origin disallows the URL
Disallowed(cache, url) ==
    /\ BaseUrl(url) \in DOMAIN cache
    /\ ~PolicyIsAllowed(cache[BaseUrl(url)], url)

\* C11: with respectRobotsTxt enabled, a URL that the cached robots policy of its
\* origin disallows is never fetched and never counted in pagesVisited
RobotsDisallowedNeverVisited ==
    config.respectRobotsTxt => \A u \in visitedUrls : ~Disallowed(robotsCache, u)

(***************************************************************************)
(* Properties of the robots gate                                           *)
(***************************************************************************)
FailedRobotsResponses == {"unparsable", "status", "error"}

\* C12: a call of loadRobotsTxt always returns a policy; when its GET ends in a
\* network error, a status other than 200 or a body that does not parse, the
\* allow-everything policy is cached under the base URL and returned; and a call
\* for a URL whose base URL is in the cache returns the cached policy at once,
\* without a GET
LoadRobotsTxtFailsOpen ==
    /\ [](\A c \in RobotsCallers : rcalls[c].pc = "done" => Len(rcalls[c].result) = 1)
    /\ [][\A c \in RobotsCallers :
            (rcalls[c].pc = "get" /\ rcalls'[c] # rcalls[c]) =>
                /\ rcalls'[c].pc = "done"
                /\ BaseUrl(rcalls[c].url[1]) \in DOMAIN robotsCache'
                /\ robotsCache'[BaseUrl(rcalls[c].url[1])] = rcalls'[c].result[1]
                /\ rcalls'[c].via \in FailedRobotsResponses => rcalls'[c].result[1] = AllowAll]_vars
    /\ [][\A c \in RobotsCallers :
            (rcalls[c].pc # "get" /\ rcalls'[c] # rcalls[c] /\ IsValidUrl(rcalls'[c].url[1])
             /\ BaseUrl(rcalls'[c].url[1]) \in DOMAIN robotsCache) =>
                /\ rcalls'[c].pc = "done"
                /\ rcalls'[c].result[1] = robotsCache[BaseUrl(rcalls'[c].url[1])]
                /\ robotsFetches' = robotsFetches /\ robotsCache' = robotsCache]_vars

\* C12 witness: one caller's GET ended in a network error, the other caller then
\* asked for another URL of the same origin and got allow-everything from the
\* cache, and one GET was sent in all
LoadRobotsTxtWitness ==
    /\ rcalls[1].pc = "done" /\ rcalls[1].via = "error"
    /\ rcalls[2].pc = "done" /\ rcalls[2].via = "cache" /\ rcalls[2].result = <<AllowAll>>
    /\ rcalls[1].url # rcalls[2].url
    /\ BaseUrl(rcalls[1].url[1]) = BaseUrl(rcalls[2].url[1])
    /\ robotsFetches = 1

(***************************************************************************)
(* Properties of the content filter                                        *)
(***************************************************************************)
\* the URLs and content types the crawler hands to the filter
FilteredUrls == LinkUrls \cup {EmbedE, PageN(3)}
FilteredContentTypes == OtherContentTypes \cup {"image/png", "image/jpeg"}

\* C13: when allowedFileTypes is empty, isDocumentUrl and isDocumentType are false
\* for every URL and content type, and the map of found documents stays empty
NoFileTypesNoDocuments ==
    config.allowedFileTypes = {} =>
        /\ \A u \in FilteredUrls : ~IsDocumentUrl(config, u)
        /\ \A u \in FilteredUrls, ct \in FilteredContentTypes : ~IsDocumentType(config, u, ct)
        /\ DOMAIN foundDocuments = {}
        /\ stats.documentsFound = 0

\* C13 witness: with no allowed file type the link to the .pdf was followed like a
\* page, its fetch did not fail, and start() has returned
NoFileTypesWitness ==
    /\ config.allowedFileTypes = {} /\ pc = "resolved"
    /\ DocD \in visitedUrls /\ stats.errors = 0

(***************************************************************************)
(* Properties of the downloader                                            *)
(***************************************************************************)
\* download was called once
SingleDownload == dl[2].pc = "idle"

\* the call has returned a failure that is not a skip
FailedDownload(call) ==
    /\ call.pc = "done"
    /\ ~call.result[1].success /\ ~call.result[1].skipped

BothDownloadsDone == \A i \in Downloaders : dl[i].pc = "done"

\* C15: when two calls of download for distinct URLs run concurrently, the output
\* file of each call that returned success holds the body of its own URL, whole
\* and nothing else
ConcurrentDownloadsIsolated ==
    BothDownloadsDone =>
        \A i \in Downloaders :
            dl[i].result[1].success =>
                /\ PathExists(files, dl[i].path[1])
                /\ files[dl[i].path[1]] = Body(dl[i].url[1])

(***************************************************************************)
(* Properties of start(): downloads and failures                           *)
(***************************************************************************)
\* C16: a run of start() only registers the documents it finds: it downloads none
DocumentsOnlyRegistered ==
    /\ stats.documentsDownloaded = 0
    /\ \A u \in DOMAIN foundDocuments : foundDocuments[u] # "downloaded"

\* C17: the session becomes failed only through a failure of the setup phase
\* (the output directory, robots.txt), never through the failure of a fetch or of
\* anything after the traversal has started
OnlySetupFailuresFatal ==
    [][(status # "failed" /\ status' = "failed") => pc \in {"prepare", "robots"}]_vars

\* C18: when the output directory cannot be created, start() rejects with nothing
\* enqueued, nothing fetched and pagesVisited 0, the status becomes failed, and
\* nothing of this changes afterwards
OutputDirFailureIsFatal ==
    /\ [][(pc = "prepare" /\ pc' = "rejected") =>
              /\ status' = "failed"
              /\ queue' = <<>> /\ seen' = {} /\ visitedUrls' = {}
              /\ stats'.pagesVisited = 0 /\ robotsFetches' = 0]_vars
    /\ [][pc = "rejected" =>
              /\ pc' = "rejected" /\ status' = status
              /\ queue' = queue /\ seen' = seen /\ visitedUrls' = visitedUrls
              /\ stats'.pagesVisited = stats.pagesVisited
              /\ robotsFetches' = robotsFetches]_vars

\* C18 witness: start() has rejected out of prepareOutputDirectory after an abort
\* request had been accepted, and the session is failed with nothing enqueued
OutputDirFailureWitness ==
    /\ pc = "rejected" /\ seen = {} /\ queue = <<>>
    /\ stats.aborted /\ status = "failed" /\ stats.pagesVisited = 0

(***************************************************************************)
(* Properties of the estimator                                             *)
(***************************************************************************)
\* C19: estimatePages always returns a result, and when a stage has failed (all
\* three sitemap probes, a fetch of the sample crawl, or the fetch of the pagination
\* analysis) the result is the default with estimatedTotal 1 and confidence error
EstimationFailureGivesDefault ==
    est.pc = "done" =>
        /\ Len(est.result) = 1
        /\ est.failed # {} =>
              est.result[1].estimatedTotal = 1 /\ est.result[1].confidence = "error"

\* the numbers of URLs of the sitemaps that the site exposes at the two probed
\* locations and through robots.txt; an index exposes the URLs of the sitemaps
\* that are read from it
RECURSIVE UrlTotal(_)
UrlTotal(docs) ==
    IF docs = <<>> THEN 0
    ELSE Head(docs).count + UrlTotal(FirstSitemaps(Head(docs).children))
         + UrlTotal(Tail(docs))

ExposedSitemapCounts(site) ==
    {UrlTotal(<<d>>) :
        d \in {site.sitemapXml, site.sitemapIndexXml} \cup Range(site.robotsTxt.sitemaps)}
    \ {0}

\* C20: when the site exposes a sitemap with n > 0 URLs, estimatePages returns
\* estimatedTotal n, confidence high and sitemapFound true, and runs neither the
\* sample crawl nor the pagination analysis
SitemapGivesEstimate ==
    (est.pc = "done" /\ IsValidUrl(est.startUrl)
     /\ ExposedSitemapCounts(est.site) # {}) =>
        /\ est.result[1].estimatedTotal \in ExposedSitemapCounts(est.site)
        /\ est.result[1].confidence = "high"
        /\ est.result[1].sitemapFound
        /\ est.stages = {"sitemap"}
        /\ est.discovered = {}

\* C20 witness: sitemap.xml and sitemap_index.xml could not be fetched, robots.txt
\* named a sitemap with 2 URLs, and the estimate is 2 with confidence high
SitemapGivesEstimateWitness ==
    /\ est.pc = "done" /\ IsValidUrl(est.startUrl)
    /\ est.site.sitemapXml = SitemapFails /\ est.site.sitemapIndexXml = SitemapFails
    /\ ExposedSitemapCounts(est.site) = {2}
    /\ est.result[1].estimatedTotal = 2 /\ est.result[1].sitemapFound
    /\ est.stages = {"sitemap"}

(***************************************************************************)
(* Properties of the session's counters and records                        *)
(***************************************************************************)
\* C21: pagesVisited, documentsFound, documentsDownloaded and errors (the stats
\* fields, and the sizes of the documents map and the error list that
\* getCurrentStats reports) never decrease
CountersMonotonic ==
    [][/\ stats'.pagesVisited >= stats.pagesVisited
       /\ stats'.documentsFound >= stats.documentsFound
       /\ Cardinality(DOMAIN foundDocuments') >= Cardinality(DOMAIN foundDocuments)
       /\ stats'.documentsDownloaded >= stats.documentsDownloaded
       /\ stats'.errors >= stats.errors
       /\ Len(errors') >= Len(errors)]_vars

\* C21 witness: start() has returned with every counter raised, two pages visited,
\* and currentUrl and queueSize reset
CountersMonotonicWitness ==
    /\ pc = "resolved"
    /\ stats.pagesVisited >= 2 /\ stats.documentsFound >= 1
    /\ stats.documentsDownloaded >= 1 /\ stats.errors >= 1
    /\ stats.currentUrl = <<>> /\ stats.queueSize = 0

\* C22: the URLs of the discovered-documents map only grow: no step of the
\* session (page processing, abort, loop exit, a download attempt, the export)
\* removes an entry
DocumentsNeverRemoved ==
    [][DOMAIN foundDocuments \subseteq DOMAIN foundDocuments']_vars

\* C22 witness: two documents were found, the session was aborted, the loop has
\* exited, the downloads were attempted, and both entries are in the map
DocumentsNeverRemovedWitness ==
    /\ stats.aborted /\ pc = "resolved"
    /\ Cardinality(DOMAIN foundDocuments) >= 2
    /\ \E u \in DOMAIN foundDocuments : foundDocuments[u] = "downloaded"
    /\ \E u \in DOMAIN foundDocuments : foundDocuments[u] = "found"

(***************************************************************************)
(* Properties of the filters                                               *)
(***************************************************************************)
\* the host contains one of the entries, letter case apart
MatchesEntry(hostname, entries) ==
    \E i \in 1..Len(entries) :
       \E k \in 1..Len(hostname), l \in 0..Len(hostname) :
          SubSeq(ToLower(hostname), k, l) = ToLower(entries[i])

\* the host is the seed's host or a subdomain of it
OnSeedDomain(cfg, hostname) ==
    \/ hostname = cfg.startUrl.host
    \/ \E k \in 1..Len(hostname) :
          /\ hostname[k] = "."
          /\ SubSeq(hostname, k + 1, Len(hostname)) = cfg.startUrl.host

\* C23: isDomainAllowed rejects a host that contains a blocked entry, also when it is
\* on the allow-list or is the seed's host; otherwise with an allow-list it accepts
\* exactly the hosts that match an entry; otherwise with stayOnDomain exactly the
\* seed's host and its subdomains; otherwise it accepts
DomainDecisionOrder ==
    (fcall # <<>> /\ fcall[1].op = "isDomainAllowed") =>
        LET hostname == fcall[1].arg
            result == fcall[1].result
            blocked == MatchesEntry(hostname, config.blockedDomains)
        IN  /\ blocked => ~result
            /\ (~blocked /\ config.allowedDomains # <<>>) =>
                  (result <=> MatchesEntry(hostname, config.allowedDomains))
            /\ (~blocked /\ config.allowedDomains = <<>> /\ config.stayOnDomain) =>
                  (result <=> OnSeedDomain(config, hostname))
            /\ (~blocked /\ config.allowedDomains = <<>> /\ ~config.stayOnDomain) => result

\* C23 witness: the seed's host, which is on the allow-list and contains a blocked
\* entry, was rejected
DomainDecisionOrderWitness ==
    /\ fcall # <<>> /\ fcall[1].op = "isDomainAllowed"
    /\ fcall[1].arg = config.startUrl.host
    /\ MatchesEntry(fcall[1].arg, config.blockedDomains)
    /\ MatchesEntry(fcall[1].arg, config.allowedDomains)
    /\ ~fcall[1].result

\* C24: isFileSizeAllowed returns true for an unknown size, and for a known size,
\* 0 included, true exactly when minFileSize <= size <= maxFileSize
FileSizeWithinLimits ==
    (fcall # <<>> /\ fcall[1].op = "isFileSizeAllowed") =>
        LET size == fcall[1].arg
        IN  fcall[1].result <=>
               (size = <<>> \/ (size[1] >= MinFileSize /\ size[1] <= MaxFileSize))

(***************************************************************************)
(* Properties of the traversal loop                                        *)
(***************************************************************************)
\* an iteration of the loop gets past the while condition and the timeout check
LoopCheck ==
    /\ pc = "loop" /\ WhileCondition /\ ~timedOut
    /\ (pc' # "loop" \/ queue' # queue)

\* C25: noProgressCount counts the consecutive iterations that found pagesVisited
\* where the iteration before had found it, and the loop leaves through the
\* stagnation guard exactly in the iteration that makes the count exceed 10: up to
\* 10 such iterations in a row go on to dequeue
StagnationGuard ==
    [][/\ LoopCheck =>
            /\ noProgressCount' = IF stats.pagesVisited = lastPageCount
                                  THEN noProgressCount + 1 ELSE 0
            /\ lastPageCount' = stats.pagesVisited
            /\ (pc' \notin {"loop", "rate"}) <=> (noProgressCount' > StagnationLimit)
            /\ (pc' \in {"loop", "rate"}) => queue' = Tail(queue)
       /\ ~LoopCheck => UNCHANGED <<noProgressCount, lastPageCount>>]_vars

\* C25 witness: after a page was visited, the loop has left through the stagnation
\* guard with entries still queued and the page budget not used up
StagnationGuardWitness ==
    /\ pc \in {"download", "metadata"}
    /\ noProgressCount > StagnationLimit
    /\ stats.pagesVisited >= 1 /\ stats.pagesVisited < config.maxPages
    /\ ~IsEmpty(queue) /\ ~stats.aborted /\ ~timedOut

\* C26: once crawl() is entered, the traversal loop eventually exits, whatever the
\* pages and the configuration are, provided every GET returns or fails
LoopTerminates == (pc = "loop") ~> (pc \in {"download", "metadata"})

\* C26 witness: the loop has exited because the frontier was used up, after two
\* pages were fetched, with neither the budget, an abort, the timeout nor the
\* stagnation guard stopping it
LoopTerminatesWitness ==
    /\ pc \in {"download", "metadata"}
    /\ IsEmpty(queue) /\ stats.pagesVisited = 2 /\ stats.pagesVisited < config.maxPages
    /\ ~stats.aborted /\ ~timedOut /\ noProgressCount <= StagnationLimit

FetchFailureHandled ==
    [][/\ errors' # errors =>
            /\ pc = "fetch" /\ pc' = "loop"
            /\ errors' = Append(errors, cur[1].url)
            /\ stats' = [stats EXCEPT !.errors = @ + 1]
            /\ UNCHANGED <<queue, seen, visitedUrls, foundDocuments>>
       /\ Len(errors') = stats'.errors
       /\ (pc = "rate" /\ pc' = "fetch") =>
            /\ cur[1].url \notin visitedUrls
            /\ cur[1].url \notin Range(errors)
            /\ cur[1].url \in visitedUrls']_vars

\* C29 witness: the GET of a linked page has failed, and the next queued URL is
\* being fetched
FetchFailureHandledWitness ==
    /\ Len(errors) = 1 /\ stats.errors = 1
    /\ errors[1] # config.startUrl
    /\ pc = "fetch" /\ cur[1].url # errors[1]
    /\ stats.pagesVisited = 3

\* C30: every attempt of downloadDocuments leaves its mark: the document is marked
\* downloaded and counted, or marked skipped, or, when the download failed, marked
\* with the error while the failure is counted in the session's errors; and the
\* documents after it are still attempted
DownloadFailureRecorded ==
    [][(pc = "download" /\ dlTodo # <<>> /\ dlTodo' # dlTodo) =>
          LET url == Head(dlTodo)
          IN  /\ dlTodo' = Tail(dlTodo) /\ pc' = "download"
              /\ \/ /\ foundDocuments'[url] = "downloaded"
                    /\ stats'.documentsDownloaded = stats.documentsDownloaded + 1
                    /\ errors' = errors
                 \/ /\ foundDocuments'[url] = "skipped"
                    /\ stats' = stats /\ errors' = errors
                 \/ /\ foundDocuments'[url] = "failed"
                    /\ stats'.errors = stats.errors + 1
                    /\ errors' = Append(errors, url)]_vars

(***************************************************************************)
(* Properties of processHtmlPage                                           *)
(***************************************************************************)
\* the step is processUrl handing this HTML page to processHtmlPage
HtmlPageProcessed(page) ==
    /\ pc = "fetch" /\ pc' = "loop"
    /\ errors' = errors
    /\ LET h == ProcessHtmlPage(config, visitedUrls,
                    Heap(queue, seen, clock, foundDocuments, stats),
                    cur[1].url, cur[1].depth, page.links, page.embeds)
       IN  /\ queue' = h.queue /\ seen' = h.seen /\ clock' = h.clock
           /\ foundDocuments' = h.docs
           /\ stats' = h.stats

\* C31: after an HTML page was processed, every anchor of the page that is a
\* document URL and passes the crawl filter is in the discovered-documents map
DocumentAnchorsRegistered ==
    [][\A page \in Pages :
          HtmlPageProcessed(page) =>
              \A l \in Range(page.links) :
                  (IsDocumentUrl(config, l) /\ ShouldCrawlUrl(config, l)) =>
                      l \in DOMAIN foundDocuments']_vars

\* the page numbers of the anchors that detectPagination takes for page links
ObservedPageNumbers(links, currentUrl) ==
    {l.page : l \in {m \in Range(links) : IsPaginationLink(m, currentUrl)}}

\* the page numbers that detectPagination fills in: at least two distinct numbers
\* were observed and the largest is more than one above the smallest
FilledPageNumbers(links, currentUrl) ==
    LET nums == ObservedPageNumbers(links, currentUrl)
    IN  IF Cardinality(nums) >= 2 /\ SetMax(nums) > SetMin(nums) + 1
        THEN SetMin(nums)..SetMax(nums)
        ELSE {}

\* the queue holds the URL at depth 1
QueuedAtDepthOne(q, url) == \E i \in 1..Len(q) : q[i].url = url /\ q[i].depth = 1

\* the flag stats.paginationDetected is set by the processing of a depth-0 page
\* only and is never cleared
PaginationFlagSteps ==
    /\ stats.paginationDetected => stats'.paginationDetected
    /\ (stats'.paginationDetected /\ ~stats.paginationDetected) =>
           (pc = "fetch" /\ cur[1].depth = 0)

\* C32 as stated: pagination is detected on depth-0 pages only, the flag never
\* reverts, and a detection with a gap enqueues at depth 1 a URL for every page
\* number from the smallest to the largest observed
PaginationEnqueuesEveryPage ==
    [][/\ PaginationFlagSteps
       /\ \A page \in Pages :
             (HtmlPageProcessed(page) /\ cur[1].depth = 0 /\ ~stats.paginationDetected) =>
                 \A n \in FilledPageNumbers(page.links, cur[1].url) :
                     QueuedAtDepthOne(queue', [cur[1].url EXCEPT !.page = n])]_vars

\* C32: pagination is detected on depth-0 pages only, the flag never reverts, and
\* a detection with a gap enqueues at depth 1 a URL for every page number from the
\* smallest to the largest observed, except the URL of the page being processed
PaginationEnqueuesUnvisitedPages ==
    [][/\ PaginationFlagSteps
       /\ \A page \in Pages :
             (HtmlPageProcessed(page) /\ cur[1].depth = 0 /\ ~stats.paginationDetected) =>
                 \A n \in FilledPageNumbers(page.links, cur[1].url) :
                     LET pageUrl == [cur[1].url EXCEPT !.page = n]
                     IN  /\ pageUrl \in seen'
                         /\ pageUrl # cur[1].url => QueuedAtDepthOne(queue', pageUrl)]_vars

\* a page number that no anchor of the modelled pages carries is in the queue
PaginationEnqueuesUnvisitedPagesWitness ==
    /\ stats.paginationDetected
    /\ QueuedAtDepthOne(queue, PageN(LastPage - 1))

(***************************************************************************)
(* Properties of getOutputPath                                             *)
(***************************************************************************)
\* C33: in the flat layout (createMirrorStructure disabled) the calls of download
\* for two distinct URLs never get the same destination path
FlatPathsDistinct ==
    ~config.createMirrorStructure =>
        \A i, j \in Downloaders :
            (/\ dl[i].path # <<>> /\ dl[j].path # <<>>
             /\ dl[i].url # dl[j].url) =>
                dl[i].path # dl[j].path

(***************************************************************************)
(* Properties of enforceRateLimit                                          *)
(***************************************************************************)
\* C34: the starts of two consecutive fetches are at least config.delay apart
\* when randomDelay is off, and at least half of config.delay when it is on
FetchesSpacedByDelay ==
    Len(rate.starts) = 2 =>
        IF config.randomDelay
        THEN 2 * (rate.starts[2] - rate.starts[1]) >= config.delay
        ELSE rate.starts[2] - rate.starts[1] >= config.delay

\* C34 witness: the second fetch had to wait and started exactly at the bound
FetchesSpacedByDelayWitness ==
    /\ Len(rate.starts) = 2
    /\ config.delay > 0
    /\ IF config.randomDelay
       THEN 2 * (rate.starts[2] - rate.starts[1]) = config.delay
       ELSE rate.starts[2] - rate.starts[1] = config.delay

(***************************************************************************)
(* Properties of parseSitemap                                              *)
(***************************************************************************)
\* the sitemaps that parseSitemap parses for an index at this location
SitemapChildren(g, l) ==
    IF g[l].kind = "index" THEN Range(FirstSitemaps(g[l].children)) ELSE {}

RECURSIVE SitemapClosure(_, _, _)
SitemapClosure(g, S, n) ==
    IF n = 0 THEN S
    ELSE SitemapClosure(g, S \cup UNION {SitemapChildren(g, l) : l \in S}, n - 1)

\* the locations that parsing the sitemap at l leads to
SitemapDescendants(g, l) ==
    SitemapClosure(g, SitemapChildren(g, l), Cardinality(SitemapLocs))

\* parsing /sitemap.xml leads to an index that leads to itself
SitemapReachesCycle(g) ==
    \E l \in {SitemapRoot} \cup SitemapDescendants(g, SitemapRoot) :
        l \in SitemapDescendants(g, l)

\* C35: for a sitemap index that lists itself, or a cycle of indexes, parseSitemap
\* does not return as long as the GETs of the sitemaps are answered
SitemapCycleNeverReturns ==
    (SitemapReachesCycle(est.graph) /\ ~est.failed) => est.result = <<>>

\* C35 witness: the recursion into a self-listing index has reached the depth at
\* which the specification stops following it
SitemapCycleNeverReturnsWitness ==
    /\ SitemapReachesCycle(est.graph) /\ ~est.failed
    /\ Len(est.stack) = MaxSitemapDepth
    /\ \A i \in 1..Len(est.stack) : est.stack[i].loc = SitemapRoot

(***************************************************************************)
(* Properties of the loop of crawl()                                       *)
(***************************************************************************)
\* the step takes an entry from the frontier
Dequeues == Len(queue') < Len(queue)

\* C36: whatever config.concurrency is, at most one processUrl call is in flight:
\* no entry is dequeued while the processing of the previous URL has not finished,
\* and a URL starts being processed only when none is
OneUrlAtATime ==
    [][/\ Dequeues => pc \notin {"rate", "fetch"}
       /\ (pc' = "rate" /\ pc # "rate") => (pc = "loop" /\ Dequeues)
       /\ InFlight' <= 1]_vars

\* C36 witness: with concurrency 2 a URL is being fetched while the frontier
\* holds two more entries
OneUrlAtATimeWitness ==
    /\ config.concurrency = 2
    /\ pc = "fetch" /\ Len(queue) >= 2

\* C37: pagesVisited equals the number of visited URLs in every state, and the URL
\* of a failed fetch is among them: it is counted and uses up the page budget
PagesVisitedCountsVisited ==
    /\ stats.pagesVisited = Cardinality(visitedUrls)
    /\ Range(errors) \subseteq visitedUrls

\* C37 witness: the only fetch of a crawl with a budget of one page has failed,
\* and the loop has ended
PagesVisitedCountsVisitedWitness ==
    /\ config.maxPages = 1 /\ stats.pagesVisited = 1
    /\ errors = <<config.startUrl>>
    /\ pc \notin {"prepare", "robots", "loop", "rate", "fetch"}

\* C38: the loop takes the entries from the frontier in breadth-first order: the
\* dequeued entry is no deeper than any entry left, no entry of the frontier is
\* shallower than the URL dispatched last, and so no URL is dispatched after a
\* deeper one
BreadthFirstOrder ==
    [][/\ Dequeues =>
            \A i \in 1..Len(queue') : queue'[i].depth >= Head(queue).depth
       /\ cur' # <<>> =>
            \A i \in 1..Len(queue') : queue'[i].depth >= cur'[1].depth
       /\ (Dequeues /\ cur # <<>>) => Head(queue).depth >= cur[1].depth]_vars

\* C38 witness: two pages have been processed, the second of which put an entry of
\* depth 2 into the frontier, and the third URL dispatched has depth 1
BreadthFirstOrderWitness ==
    /\ pc = "rate" /\ stats.pagesVisited = 2
    /\ cur[1].depth = 1
    /\ \E i \in 1..Len(queue) : queue[i].depth = 2

(***************************************************************************)
(* Properties of the discovered documents                                  *)
(***************************************************************************)
\* C39: every URL in the discovered-documents map is on an allowed domain and
\* passes the crawl filter
DocumentsPassCrawlFilter ==
    \A u \in DOMAIN foundDocuments :
        IsDomainAllowed(config, u.host) /\ ShouldCrawlUrl(config, u)

(***************************************************************************)
(* Properties of download(): a file that was there before                  *)
(***************************************************************************)
\* the only call of download is the first, and the file at its destination path
\* is the one that was in the output directory before the call
PreviousFileInPlace ==
    /\ dl[1].url # <<>> /\ dl[2] = IdleDownload
    /\ LET p == GetOutputPath(config, dl[1].url[1])
       IN  PathExists(files, p) /\ files[p] = OldContent

\* the call has returned a failure that is not a skip
DownloadFailed ==
    /\ dl[1].pc = "done"
    /\ ~dl[1].result[1].success /\ ~dl[1].result[1].skipped

\* C40: a download that fails leaves a file that was at the destination path
\* before the call as it was: the step in which the call returns its failure
\* neither removes nor changes that file
PreviousFileSurvivesFailure ==
    [][(PreviousFileInPlace /\ dl[1].pc # "done" /\ DownloadFailed') =>
           PreviousFileInPlace']_vars

====
